---- MODULE Spec2Model ----
(***************************************************************************)
(* goal-keeper: the Conversation Signal Engine.                            *)
(*                                                                         *)
(* Part I  - the LLM-backed analyzer hooks (useDriftDetection,             *)
(*           useInsightDetection, useActionItems, useUnifiedAnalysis):     *)
(*           throttling, in-flight flags, response parsing.                *)
(* Part II - the behavioral trait inferrer (useBehavioralInference):       *)
(*           counters, traits, observations, personalization hints.        *)
(* Part III - the client-side analysis (useClientSideAnalysis) and the     *)
(*           App's drift effect: pattern extraction, keyword drift check.  *)
(*                                                                         *)
(* Numbers: a confidence reported by the completion service is kept in     *)
(* hundredths (0.7 is 70).  Ratios computed by the code (trait value and   *)
(* trait confidence) are kept as exact fractions <<num, den>>; for every   *)
(* comparison the code makes on them (> 0.7, < 0.3, > 0.6, < 0.4, < 0.2,   *)
(* > 0.5, < 0.3 on counters up to 60) the IEEE double result equals the    *)
(* exact one.                                                              *)
(***************************************************************************)
EXTENDS Integers, Sequences, FiniteSets, TLC

VARIABLES
  \* ---- Part I: the transcript, the settings and the four analyzer hooks
  messages,      \* the transcript handed to the analyzers: a sequence of roles
  settings,      \* settings: apiKey (non-empty or not), driftCheckFrequency,
                 \* analysisInterval
  goal,          \* the goal string is non-empty
  mounted,       \* the analyzer hook this component tree mounts
  driftHook,     \* useDriftDetection: messageCountRef, isCheckingRef, ...
  insightHook,   \* useInsightDetection: lastAnalyzedCountRef, isAnalyzing, ...
  actionHook,    \* useActionItems: items, isDetecting, ...
  unifiedHook,   \* useUnifiedAnalysis: lastAnalyzedCountRef, state, ...
  requests,      \* completion-service calls issued so far (bounds the run)
  svcLog,        \* user-message count at each service call since the last reset
  uncaught,      \* an exception escaped a hook call to its caller
  nextId,        \* generateId(): the next fresh id
  lastOp,        \* the analyzer operation that produced this state, with its
                 \* input (the inferrer's operations leave it alone)
  \* ---- Part II: the behavioral profile
  metrics,       \* profile.metrics
  traits,        \* profile.traits
  observations,  \* profile.observations
  now,           \* the wall clock, in ms since the profile was created
  tracks,        \* counter updates made so far (bounds the run)
  \* ---- Part III: the client-side analysis and the App's drift effect
  clientHook,    \* useClientSideAnalysis: actionItems, highlightedMessages,
                 \* processedMessagesRef
  driftAlert,    \* App: the drift alert is showing
  analyzeCalls,  \* per message id, the analyzeMessage calls since the last
                 \* reset: 0, 1, or 2 for two or more
  \* ---- Part III, the drift check's functions on their own
  driftMessages, \* the transcript handed to checkDriftClientSide
  goalString,    \* the goal handed to extractGoalKeywords
  goalKeywords,  \* <<>> or <<the keywords extractGoalKeywords returned>>
  driftCheck,    \* <<>> or <<the result checkDriftClientSide returned>>
  \* ---- Part IV: the cognitive profile
  cognitiveProfile, \* useCognitiveProfile: profile.thinkingStyles,
                 \* profile.patterns, profile.mentalModels and
                 \* profile.preferences
  moduleDefaults, \* DEFAULT_COGNITIVE_PROFILE: the sections that are objects of
                 \* their own; a section missing here is the very object the
                 \* profile holds
  merges,        \* responses merged into the profile so far (bounds the run)
  mergeArgument, \* <<the object mergeProfileUpdate was given as `current`,
                 \* as it is after the call>> while the profile is the one
                 \* that call returned, <<>> otherwise
  \* ---- Part V: the conversation
  conversation   \* momentum: useConversationAnalysis's momentum;
                 \* momentumUpdates: updateMomentum calls so far (bounds the
                 \* run); messages, goal: the App's transcript and goal;
                 \* analysed: <<>> or <<the dependencies the App's analysis
                 \* effect last ran with>>; isLoading, error: useChat's;
                 \* awaiting: the ids of the user messages whose sends await
                 \* the completion service; sessions, currentSession: the
                 \* App's (<<>> is null)

analyzerVars == <<messages, settings, goal, mounted, driftHook, insightHook,
                  actionHook, unifiedHook, requests, svcLog, uncaught>>
profileVars == <<metrics, traits, observations, now, tracks>>
keywordVars == <<driftMessages, goalString, goalKeywords, driftCheck>>
cognitionVars ==
  <<cognitiveProfile, moduleDefaults, merges, mergeArgument, conversation>>
clientVars == <<clientHook, driftAlert, analyzeCalls, keywordVars, cognitionVars>>
vars == <<profileVars, nextId, analyzerVars, clientVars, lastOp>>

\* ------------------------------------------------------------------ bounds
MaxMsgs == 4
MaxRequests == 2
MaxTracks == 2
MaxTicks == 1
MaxObservations == 2
MaxTranscript == 6
MaxItemIds == 3
MaxMerges == 2
MaxUpdates == 3
MaxChatIds == 4
TickMs == 1800000

\* ------------------------------------------------------- program constants
InsightInterval == 2
FallbackAnalysisInterval == 5
DriftConfidenceThreshold == 70
InsightConfidenceThreshold == 60
UnifiedConfidenceThreshold == 70
HistoryCap == 50
MIN_SAMPLES_FOR_TRAIT == 5
OBSERVATION_COOLDOWN_MS == 1800000

\* ----------------------------------------------------------------- helpers
Take(s, n) == IF Len(s) <= n THEN s ELSE SubSeq(s, 1, n)

Range(s) == {s[i] : i \in 1..Len(s)}

Op(name, arg) == [op |-> name, arg |-> arg]

\* messages.filter(m => m.role === 'user').length
UserMessageCount(msgs) == Cardinality({i \in 1..Len(msgs) : msgs[i] = "user"})

\* =========================================================================
\* Part I - the LLM-backed analyzers
\* =========================================================================

Hooks == {"drift", "insight", "action", "unified"}

\* The settings a user can save: without an API key; with one, checking drift
\* on every call and no analysis interval set (0); with one, both set to 2.
SettingsChoices ==
  {[apiKey |-> FALSE, driftCheckFrequency |-> 2, analysisInterval |-> 2],
   [apiKey |-> TRUE, driftCheckFrequency |-> 1, analysisInterval |-> 0],
   [apiKey |-> TRUE, driftCheckFrequency |-> 2, analysisInterval |-> 2]}

\* ---- the completion service's answer: free text that may embed JSON.
\* A response is a sequence of tokens: prose, an opening brace, a closing
\* brace, or the members of one JSON object (the text between its braces).
Prose == [t |-> "prose"]
LB == [t |-> "{"]
RB == [t |-> "}"]
Members(v) == [t |-> "members", v |-> v]

\* The parsed members of the objects the prompts ask for.
DriftJson(aligned, confidence) ==
  [kind |-> "drift", aligned |-> aligned, confidence |-> confidence]
InsightJson(hasInsight, confidence) ==
  [kind |-> "insight", hasInsight |-> hasInsight, confidence |-> confidence]
ActionJson(texts) == [kind |-> "action", actionItems |-> texts]
UnifiedJson(detected, found, confidence, texts) ==
  [kind |-> "unified", detected |-> detected, found |-> found,
   confidence |-> confidence, actions |-> texts]
EmptyJson == [kind |-> "empty"]

\* Texts are sequences of characters.
UpperCaseLetters ==
  <<"A", "B", "C", "D", "E", "F", "G", "H", "I", "J", "K", "L", "M", "N",
  "O", "P", "Q", "R", "S", "T", "U", "V", "W", "X", "Y", "Z">>
LowerCaseLetters ==
  <<"a", "b", "c", "d", "e", "f", "g", "h", "i", "j", "k", "l", "m", "n",
  "o", "p", "q", "r", "s", "t", "u", "v", "w", "x", "y", "z">>
ToLowerCaseChar(c) ==
  IF \E i \in 1..26 : UpperCaseLetters[i] = c
  THEN LowerCaseLetters[CHOOSE i \in 1..26 : UpperCaseLetters[i] = c]
  ELSE c
ToLowerCase(text) == [i \in 1..Len(text) |-> ToLowerCaseChar(text[i])]
TextUpper == <<"A", "b">>
TextLower == <<"a", "b">>
TextOther == <<"c", "d">>

Wrapped(v) == <<LB, Members(v), RB>>
Chatty(v) == <<Prose, LB, Members(v), RB, Prose>>
TwoObjects(v) == <<LB, Members(v), RB, Prose, LB, Members(v), RB>>
Unparseable == {<<Prose>>, <<LB, Prose, RB>>, <<RB, Prose, LB>>}

DriftResponses ==
  Unparseable \cup
  {Wrapped(DriftJson(FALSE, 90)), Chatty(DriftJson(FALSE, 71)),
   Wrapped(DriftJson(FALSE, 70)), Wrapped(DriftJson(TRUE, 90)),
   TwoObjects(DriftJson(FALSE, 90)), <<LB, RB>>}
InsightResponses ==
  Unparseable \cup
  {Wrapped(InsightJson(TRUE, 90)), Chatty(InsightJson(TRUE, 61)),
   Wrapped(InsightJson(TRUE, 60)), Wrapped(InsightJson(FALSE, 90)),
   Wrapped(InsightJson(TRUE, 70)), Wrapped(InsightJson(TRUE, 71)),
   TwoObjects(InsightJson(TRUE, 90)), <<LB, RB>>}
ActionResponses ==
  Unparseable \cup
  {Wrapped(ActionJson(<<TextUpper>>)), Chatty(ActionJson(<<TextLower, TextOther>>)),
   Wrapped(ActionJson(<<>>)), TwoObjects(ActionJson(<<TextOther>>)), <<LB, RB>>}
UnifiedResponses ==
  Unparseable \cup
  {Wrapped(UnifiedJson(TRUE, TRUE, 90, <<TextUpper>>)),
   Chatty(UnifiedJson(FALSE, TRUE, 70, <<>>)),
   Wrapped(UnifiedJson(FALSE, TRUE, 60, <<>>)),
   Wrapped(UnifiedJson(FALSE, TRUE, 61, <<>>)),
   Wrapped(UnifiedJson(FALSE, TRUE, 71, <<>>)),
   Wrapped(UnifiedJson(FALSE, FALSE, 90, <<TextOther>>)),
   TwoObjects(UnifiedJson(TRUE, TRUE, 90, <<TextUpper>>)), <<LB, RB>>}

\* ---- response.match(/\{[\s\S]*\}/): greedy, from the first "{" that has a
\* "}" after it to the last "}".  <<>> when there is no match.
Braces(response, b) == {i \in 1..Len(response) : response[i] = b}
Smallest(S) == CHOOSE i \in S : \A j \in S : i <= j
Largest(S) == CHOOSE i \in S : \A j \in S : j <= i

JsonMatchLazy(response) ==
  LET opens == Braces(response, LB)
      closes == {j \in Braces(response, RB) : opens # {} /\ j > Smallest(opens)}
  IN IF closes = {} THEN <<>>
     ELSE SubSeq(response, Smallest(opens), Smallest(closes))

JsonMatch(response) ==
  LET opens == Braces(response, LB)
      closes == {j \in Braces(response, RB) : opens # {} /\ j > Smallest(opens)}
  IN IF closes = {} THEN <<>>
     ELSE SubSeq(response, Smallest(opens), Largest(closes))

\* JSON.parse(region) throws unless the region is exactly one object.
JsonParseThrows(region) ==
  ~ \/ region = <<LB, RB>>
    \/ Len(region) = 3 /\ region[1] = LB /\ region[2].t = "members" /\ region[3] = RB

JsonParse(region) == IF region = <<LB, RB>> THEN EmptyJson ELSE region[2].v

\* parseInsightResponse: the parsed object in a one-element sequence, <<>>
\* for null (no match, or JSON.parse threw and the catch fell through).
ParseInsightResponse(response) ==
  LET jsonMatch == JsonMatch(response)
  IN IF jsonMatch # <<>> /\ ~JsonParseThrows(jsonMatch)
     THEN <<JsonParse(jsonMatch)>>
     ELSE <<>>

\* parseActionItemsResponse
ParseActionItemsResponse(response) ==
  LET jsonMatch == JsonMatch(response)
  IN IF jsonMatch # <<>> /\ ~JsonParseThrows(jsonMatch)
     THEN <<JsonParse(jsonMatch)>>
     ELSE <<>>

\* parseResponse (useUnifiedAnalysis)
ParseResponse(response) ==
  LET jsonMatch == JsonMatch(response)
  IN IF jsonMatch # <<>> /\ ~JsonParseThrows(jsonMatch)
     THEN <<JsonParse(jsonMatch)>>
     ELSE <<>>

\* parseDriftAnalysis: the default analysis instead of null.
ParseDriftAnalysis(response) ==
  LET jsonMatch == JsonMatch(response)
  IN IF jsonMatch # <<>> /\ ~JsonParseThrows(jsonMatch)
     THEN JsonParse(jsonMatch)
     ELSE DriftJson(TRUE, 50)

\* ---- the state after the hooks are constructed
InitDriftHook ==
  [messageCountRef |-> 0, isCheckingRef |-> FALSE, pending |-> 0, detected |-> 0]
InitInsightHook ==
  [lastAnalyzedCountRef |-> 0, isAnalyzing |-> FALSE, pending |-> 0,
   currentInsight |-> <<>>, insightsHistory |-> <<>>]
InitActionHook == [items |-> <<>>, isDetecting |-> FALSE, pending |-> 0]
InitUnifiedHook(s) ==
  [lastAnalyzedCountRef |-> 0,
   analysisIntervalRef |->
     IF s.analysisInterval # 0 THEN s.analysisInterval ELSE FallbackAnalysisInterval,
   isAnalyzing |-> FALSE, lastAnalysis |-> <<>>, pending |-> 0]

InitAnalyzers ==
  /\ messages = <<>>
  /\ settings \in SettingsChoices
  /\ goal \in BOOLEAN
  /\ mounted \in Hooks
  /\ driftHook = InitDriftHook
  /\ insightHook = InitInsightHook
  /\ actionHook = InitActionHook
  /\ unifiedHook = InitUnifiedHook(settings)
  /\ requests = 0
  /\ svcLog = <<>>
  /\ uncaught = FALSE

\* The service is called: one more request, logged with the transcript's
\* user-message count.
Requested ==
  /\ requests < MaxRequests
  /\ requests' = requests + 1
  /\ svcLog' = Append(svcLog, UserMessageCount(messages))

NotRequested == UNCHANGED <<requests, svcLog>>

\* A message is appended to the transcript: useChat's send appends the user
\* message, and the reply to an earlier send appends an assistant message.
AppendMessage(role) ==
  /\ lastOp' = Op("append", <<role>>)
  /\ Len(messages) < MaxMsgs
  /\ role = "assistant" => 2 * UserMessageCount(messages) > Len(messages)
  /\ messages' = Append(messages, role)
  /\ UNCHANGED <<settings, goal, mounted, driftHook, insightHook, actionHook,
                 unifiedHook, requests, svcLog, uncaught, nextId, profileVars, clientVars>>

\* ---------------------------------------------------- useDriftDetection
\* checkDrift(messages), up to the await of sendMessage.
CheckDrift ==
  /\ lastOp' = Op("checkDrift", <<>>)
  /\ mounted = "drift"
  /\ IF ~settings.apiKey \/ ~goal \/ driftHook.isCheckingRef
     THEN UNCHANGED driftHook /\ NotRequested
     ELSE IF driftHook.messageCountRef + 1 < settings.driftCheckFrequency
     THEN /\ driftHook' = [driftHook EXCEPT !.messageCountRef = @ + 1]
          /\ NotRequested
     ELSE /\ driftHook' = [driftHook EXCEPT !.messageCountRef = 0,
                                            !.isCheckingRef = TRUE,
                                            !.pending = @ + 1]
          /\ Requested
  /\ UNCHANGED <<messages, settings, goal, mounted, insightHook, actionHook,
                 unifiedHook, uncaught, nextId, profileVars, clientVars>>

\* sendMessage resolved with `response`: parse, decide, finally.
CheckDriftResolved(response) ==
  /\ lastOp' = Op("checkDriftResolved", <<response>>)
  /\ mounted = "drift"
  /\ driftHook.pending > 0
  /\ LET analysis == ParseDriftAnalysis(response)
         alert == /\ analysis.kind = "drift"
                  /\ ~analysis.aligned
                  /\ analysis.confidence > DriftConfidenceThreshold
     IN driftHook' = [driftHook EXCEPT
                        !.detected = IF alert THEN @ + 1 ELSE @,
                        !.isCheckingRef = FALSE,
                        !.pending = @ - 1]
  /\ UNCHANGED <<messages, settings, goal, mounted, insightHook, actionHook,
                 unifiedHook, requests, svcLog, uncaught, nextId, profileVars, clientVars>>

\* sendMessage rejected: catch, finally.
CheckDriftRejected ==
  /\ lastOp' = Op("checkDriftRejected", <<>>)
  /\ mounted = "drift"
  /\ driftHook.pending > 0
  /\ driftHook' = [driftHook EXCEPT !.isCheckingRef = FALSE, !.pending = @ - 1]
  /\ UNCHANGED <<messages, settings, goal, mounted, insightHook, actionHook,
                 unifiedHook, requests, svcLog, uncaught, nextId, profileVars, clientVars>>

\* resetCounter()
ResetCounter ==
  /\ lastOp' = Op("resetCounter", <<>>)
  /\ mounted = "drift"
  /\ driftHook' = [driftHook EXCEPT !.messageCountRef = 0]
  /\ svcLog' = <<>>
  /\ UNCHANGED <<messages, settings, goal, mounted, insightHook, actionHook,
                 unifiedHook, requests, uncaught, nextId, profileVars, clientVars>>

\* -------------------------------------------------- useInsightDetection
\* analyzeForInsights(messages), up to the await of sendMessage.
AnalyzeForInsights ==
  /\ lastOp' = Op("analyzeForInsights", <<>>)
  /\ mounted = "insight"
  /\ LET userMessageCount == UserMessageCount(messages)
     IN IF \/ ~settings.apiKey \/ ~goal \/ Len(messages) < 3
           \/ userMessageCount <= insightHook.lastAnalyzedCountRef
           \/ userMessageCount - insightHook.lastAnalyzedCountRef < InsightInterval
        THEN UNCHANGED insightHook /\ NotRequested
        ELSE /\ insightHook' = [insightHook EXCEPT
                                  !.lastAnalyzedCountRef = userMessageCount,
                                  !.isAnalyzing = TRUE,
                                  !.pending = @ + 1]
             /\ Requested
  /\ UNCHANGED <<messages, settings, goal, mounted, driftHook, actionHook,
                 unifiedHook, uncaught, nextId, profileVars, clientVars>>

\* sendMessage resolved with `response`.
AnalyzeForInsightsResolved(response) ==
  /\ lastOp' = Op("analyzeForInsightsResolved", <<response>>)
  /\ mounted = "insight"
  /\ insightHook.pending > 0
  /\ LET parsed == ParseInsightResponse(response)
         accepted == /\ parsed # <<>>
                     /\ parsed[1].kind = "insight"
                     /\ parsed[1].hasInsight
                     /\ parsed[1].confidence > InsightConfidenceThreshold
         insight == [id |-> nextId, confidence |-> parsed[1].confidence]
     IN IF accepted
        THEN /\ insightHook' = [insightHook EXCEPT
                  !.currentInsight = <<insight>>,
                  !.insightsHistory = Take(<<insight>> \o @, HistoryCap),
                  !.isAnalyzing = FALSE,
                  !.pending = @ - 1]
             /\ nextId' = nextId + 1
        ELSE /\ insightHook' = [insightHook EXCEPT !.isAnalyzing = FALSE,
                                                   !.pending = @ - 1]
             /\ UNCHANGED nextId
  /\ UNCHANGED <<messages, settings, goal, mounted, driftHook, actionHook,
                 unifiedHook, requests, svcLog, uncaught, profileVars, clientVars>>

AnalyzeForInsightsRejected ==
  /\ lastOp' = Op("analyzeForInsightsRejected", <<>>)
  /\ mounted = "insight"
  /\ insightHook.pending > 0
  /\ insightHook' = [insightHook EXCEPT !.isAnalyzing = FALSE, !.pending = @ - 1]
  /\ UNCHANGED <<messages, settings, goal, mounted, driftHook, actionHook,
                 unifiedHook, requests, svcLog, uncaught, nextId, profileVars, clientVars>>

\* resetAnalysis() of useInsightDetection
InsightResetAnalysis ==
  /\ lastOp' = Op("insightResetAnalysis", <<>>)
  /\ mounted = "insight"
  /\ insightHook' = [insightHook EXCEPT !.lastAnalyzedCountRef = 0,
                                        !.currentInsight = <<>>]
  /\ svcLog' = <<>>
  /\ UNCHANGED <<messages, settings, goal, mounted, driftHook, actionHook,
                 unifiedHook, requests, uncaught, nextId, profileVars, clientVars>>

\* ------------------------------------------------------- useActionItems
\* detectActionItems(messages), up to the await of sendMessage.
DetectActionItems ==
  /\ lastOp' = Op("detectActionItems", <<>>)
  /\ mounted = "action"
  /\ IF ~settings.apiKey \/ Len(messages) < 2
     THEN UNCHANGED actionHook /\ NotRequested
     ELSE /\ actionHook' = [actionHook EXCEPT !.isDetecting = TRUE,
                                              !.pending = @ + 1]
          /\ Requested
  /\ UNCHANGED <<messages, settings, goal, mounted, driftHook, insightHook,
                 unifiedHook, uncaught, nextId, profileVars, clientVars>>

\* The items of a response, each with a fresh id.
NewItems(texts, firstId) ==
  [i \in 1..Len(texts) |-> [id |-> firstId + i - 1, text |-> texts[i]]]

\* setItems(prev => [...prev, ...uniqueNew])
MergeItems(prev, newItems) ==
  LET existingTexts == {ToLowerCase(prev[i].text) : i \in 1..Len(prev)}
      IsNew(n) == ToLowerCase(n.text) \notin existingTexts
  IN prev \o SelectSeq(newItems, IsNew)

\* sendMessage resolved with `response`.
DetectActionItemsResolved(response) ==
  /\ lastOp' = Op("detectActionItemsResolved", <<response>>)
  /\ mounted = "action"
  /\ actionHook.pending > 0
  /\ LET parsed == ParseActionItemsResponse(response)
         some == /\ parsed # <<>>
                 /\ parsed[1].kind = "action"
                 /\ Len(parsed[1].actionItems) > 0
     IN IF some
        THEN /\ actionHook' = [actionHook EXCEPT
                  !.items = MergeItems(@, NewItems(parsed[1].actionItems, nextId)),
                  !.isDetecting = FALSE,
                  !.pending = @ - 1]
             /\ nextId' = nextId + Len(parsed[1].actionItems)
        ELSE /\ actionHook' = [actionHook EXCEPT !.isDetecting = FALSE,
                                                 !.pending = @ - 1]
             /\ UNCHANGED nextId
  /\ UNCHANGED <<messages, settings, goal, mounted, driftHook, insightHook,
                 unifiedHook, requests, svcLog, uncaught, profileVars, clientVars>>

DetectActionItemsRejected ==
  /\ lastOp' = Op("detectActionItemsRejected", <<>>)
  /\ mounted = "action"
  /\ actionHook.pending > 0
  /\ actionHook' = [actionHook EXCEPT !.isDetecting = FALSE, !.pending = @ - 1]
  /\ UNCHANGED <<messages, settings, goal, mounted, driftHook, insightHook,
                 unifiedHook, requests, svcLog, uncaught, nextId, profileVars, clientVars>>

\* --------------------------------------------------- useUnifiedAnalysis
\* analyze(messages, goal), up to the await of sendMessage.
Analyze ==
  /\ lastOp' = Op("analyze", <<>>)
  /\ mounted = "unified"
  /\ LET userMessageCount == UserMessageCount(messages)
     IN IF \/ ~settings.apiKey \/ ~goal \/ Len(messages) < 2
           \/ userMessageCount <= unifiedHook.lastAnalyzedCountRef
           \/ userMessageCount - unifiedHook.lastAnalyzedCountRef
                < unifiedHook.analysisIntervalRef
        THEN UNCHANGED unifiedHook /\ NotRequested
        ELSE /\ unifiedHook' = [unifiedHook EXCEPT
                                  !.lastAnalyzedCountRef = userMessageCount,
                                  !.isAnalyzing = TRUE,
                                  !.pending = @ + 1]
             /\ Requested
  /\ UNCHANGED <<messages, settings, goal, mounted, driftHook, insightHook,
                 actionHook, uncaught, nextId, profileVars, clientVars>>

\* The UnifiedAnalysisResult built with the single analyzer's threshold.
UnifiedResultSingleThreshold(parsed, firstId) ==
  IF parsed.kind # "unified"
  THEN [drift |-> FALSE, insight |-> <<>>, actions |-> <<>>]
  ELSE [drift |-> parsed.detected,
        insight |->
          IF parsed.found /\ parsed.confidence > InsightConfidenceThreshold
          THEN <<[id |-> firstId, confidence |-> parsed.confidence]>>
          ELSE <<>>,
        actions |-> NewItems(parsed.actions, firstId + 1)]

\* The UnifiedAnalysisResult built from a parsed object.
UnifiedResult(parsed, firstId) ==
  IF parsed.kind # "unified"
  THEN [drift |-> FALSE, insight |-> <<>>, actions |-> <<>>]
  ELSE [drift |-> parsed.detected,
        insight |->
          IF parsed.found /\ parsed.confidence > UnifiedConfidenceThreshold
          THEN <<[id |-> firstId, confidence |-> parsed.confidence]>>
          ELSE <<>>,
        actions |-> NewItems(parsed.actions, firstId + 1)]

\* sendMessage resolved with `response`: `if (!parsed) return null` leaves
\* the state as it is; otherwise the result is stored.
AnalyzeResolved(response) ==
  /\ lastOp' = Op("analyzeResolved", <<response>>)
  /\ mounted = "unified"
  /\ unifiedHook.pending > 0
  /\ LET parsed == ParseResponse(response)
     IN IF parsed = <<>>
        THEN /\ unifiedHook' = [unifiedHook EXCEPT !.pending = @ - 1]
             /\ UNCHANGED nextId
        ELSE /\ unifiedHook' = [unifiedHook EXCEPT
                  !.isAnalyzing = FALSE,
                  !.lastAnalysis = <<UnifiedResult(parsed[1], nextId)>>,
                  !.pending = @ - 1]
             /\ nextId' = nextId + 1 + Len(UnifiedResult(parsed[1], nextId).actions)
  /\ UNCHANGED <<messages, settings, goal, mounted, driftHook, insightHook,
                 actionHook, requests, svcLog, uncaught, profileVars, clientVars>>

\* sendMessage rejected: the catch clears isAnalyzing.
AnalyzeRejected ==
  /\ lastOp' = Op("analyzeRejected", <<>>)
  /\ mounted = "unified"
  /\ unifiedHook.pending > 0
  /\ unifiedHook' = [unifiedHook EXCEPT !.isAnalyzing = FALSE, !.pending = @ - 1]
  /\ UNCHANGED <<messages, settings, goal, mounted, driftHook, insightHook,
                 actionHook, requests, svcLog, uncaught, nextId, profileVars, clientVars>>

\* resetAnalysis() of useUnifiedAnalysis
ResetAnalysis ==
  /\ lastOp' = Op("resetAnalysis", <<>>)
  /\ mounted = "unified"
  /\ unifiedHook' = [unifiedHook EXCEPT !.lastAnalyzedCountRef = 0,
                                        !.isAnalyzing = FALSE,
                                        !.lastAnalysis = <<>>]
  /\ svcLog' = <<>>
  /\ UNCHANGED <<messages, settings, goal, mounted, driftHook, insightHook,
                 actionHook, requests, uncaught, nextId, profileVars, clientVars>>

\* setAnalysisInterval(interval)
SetAnalysisInterval(interval) ==
  /\ lastOp' = Op("setAnalysisInterval", <<interval>>)
  /\ mounted = "unified"
  /\ unifiedHook' = [unifiedHook EXCEPT !.analysisIntervalRef = interval]
  /\ UNCHANGED <<messages, settings, goal, mounted, driftHook, insightHook,
                 actionHook, requests, svcLog, uncaught, nextId, profileVars, clientVars>>

\* =========================================================================
\* Part II - the behavioral trait inferrer (useBehavioralInference)
\* =========================================================================

\* ---- exact fractions <<num, den>>, den > 0
Frac(n, d) == <<n, d>>
Less(a, b) == a[1] * b[2] < b[1] * a[2]
Greater(a, b) == Less(b, a)
OneMinus(a) == <<a[2] - a[1], a[2]>>
Max(a, b) == IF a >= b THEN a ELSE b
\* Math.min(1, n / d)
MinOne(n, d) == IF n >= d THEN <<1, 1>> ELSE <<n, d>>

\* The numeric counters of BehavioralMetrics that analyzePatterns and
\* generateObservations read (the averages, the peak hours and the session
\* counters are read by neither), and the one record-typed metric.
NumberMetrics ==
  {"tangentCount", "selfCorrectionCount", "questionBeforeActionCount",
   "quickDecisionCount", "insightsAccepted", "insightsDismissed", "clipsTotal",
   "actionItemsCreated", "actionItemsCompleted"}
Categories == {"actions", "ideas", "questions"}
TrackValues == {1}

\* DEFAULT_BEHAVIORAL_PROFILE
DefaultMetrics ==
  [tangentCount |-> 0, selfCorrectionCount |-> 0,
   questionBeforeActionCount |-> 0, quickDecisionCount |-> 0,
   insightsAccepted |-> 0, insightsDismissed |-> 0, clipsTotal |-> 0,
   clipsByCategory |-> [c \in Categories |-> 0],
   actionItemsCreated |-> 0, actionItemsCompleted |-> 0]

\* loadProfile(): the profile an earlier session saved, or the default one.
\* The saved profiles are those of sessions that counted events and never ran
\* an analysis: counters just below the thresholds the inferrer compares.
SavedMetrics ==
  {DefaultMetrics,
   [DefaultMetrics EXCEPT !.quickDecisionCount = 7,
                          !.questionBeforeActionCount = 3,
                          !.tangentCount = 5,
                          !.actionItemsCreated = 4],
   [DefaultMetrics EXCEPT !.insightsDismissed = 5, !.actionItemsCreated = 4],
   [DefaultMetrics EXCEPT !.selfCorrectionCount = 10,
                          !.insightsAccepted = 9,
                          !.clipsTotal = 4,
                          !.clipsByCategory["questions"] = 4],
   [DefaultMetrics EXCEPT !.tangentCount = 10,
                          !.actionItemsCreated = 5,
                          !.actionItemsCompleted = 1]}

InitProfile ==
  /\ metrics \in SavedMetrics
  /\ traits = <<>>
  /\ observations = <<>>
  /\ now = 0
  /\ tracks = 0

\* The profile of a first run: DEFAULT_BEHAVIORAL_PROFILE.
ProfileAtRest ==
  /\ metrics = DefaultMetrics
  /\ traits = <<>>
  /\ observations = <<>>
  /\ now = 0
  /\ tracks = 0

\* prev.traits.find(t => t.id === id): the trait in a one-element sequence.
FindTrait(ts, id) == SelectSeq(ts, LAMBDA t : t.id = id)

\* existing?.confirmedByUser ?? null   (<<>> is null)
ExistingConfirmationLost(prevTraits, id) == <<>>

ExistingConfirmation(prevTraits, id) ==
  IF FindTrait(prevTraits, id) = <<>> THEN <<>>
  ELSE FindTrait(prevTraits, id)[1].confirmedByUser

Trait(id, confidence, value, confirmedByUser) ==
  [id |-> id, confidence |-> confidence, value |-> value,
   confirmedByUser |-> confirmedByUser]

\* ---- analyzePatterns: the four traits, each pushed when its samples suffice
ExplorationTraitNetEvidence(prevTraits, m) ==
  LET totalDriftEvents == m.tangentCount + m.selfCorrectionCount
      selfCorrectionRatio == Frac(m.selfCorrectionCount, Max(1, totalDriftEvents))
      net == IF m.tangentCount >= m.selfCorrectionCount
             THEN m.tangentCount - m.selfCorrectionCount
             ELSE m.selfCorrectionCount - m.tangentCount
  IN IF totalDriftEvents >= MIN_SAMPLES_FOR_TRAIT
     THEN <<Trait("explorationTendency", MinOne(net, 20),
                  OneMinus(selfCorrectionRatio),
                  ExistingConfirmation(prevTraits, "explorationTendency"))>>
     ELSE <<>>

ExplorationTrait(prevTraits, m) ==
  LET totalDriftEvents == m.tangentCount + m.selfCorrectionCount
      selfCorrectionRatio == Frac(m.selfCorrectionCount, Max(1, totalDriftEvents))
  IN IF totalDriftEvents >= MIN_SAMPLES_FOR_TRAIT
     THEN <<Trait("explorationTendency", MinOne(totalDriftEvents, 20),
                  OneMinus(selfCorrectionRatio),
                  ExistingConfirmation(prevTraits, "explorationTendency"))>>
     ELSE <<>>

DecisionTrait(prevTraits, m) ==
  LET decisionEvents == m.questionBeforeActionCount + m.quickDecisionCount
  IN IF decisionEvents >= MIN_SAMPLES_FOR_TRAIT
     THEN <<Trait("decisionStyle", MinOne(decisionEvents, 15),
                  Frac(m.questionBeforeActionCount, Max(1, decisionEvents)),
                  ExistingConfirmation(prevTraits, "decisionStyle"))>>
     ELSE <<>>

InsightTraitAnySample(prevTraits, m) ==
  LET insightEvents == m.insightsAccepted + m.insightsDismissed
  IN IF insightEvents >= 1
     THEN <<Trait("insightReceptivity", MinOne(insightEvents, 10),
                  Frac(m.insightsAccepted, Max(1, insightEvents)),
                  ExistingConfirmation(prevTraits, "insightReceptivity"))>>
     ELSE <<>>

InsightTrait(prevTraits, m) ==
  LET insightEvents == m.insightsAccepted + m.insightsDismissed
  IN IF insightEvents >= MIN_SAMPLES_FOR_TRAIT
     THEN <<Trait("insightReceptivity", MinOne(insightEvents, 10),
                  Frac(m.insightsAccepted, Max(1, insightEvents)),
                  ExistingConfirmation(prevTraits, "insightReceptivity"))>>
     ELSE <<>>

CaptureTrait(prevTraits, m) ==
  LET actionClips == m.clipsByCategory["actions"]
      ideaClips == m.clipsByCategory["ideas"]
      total == actionClips + ideaClips
      actionFocus == IF total > 0 THEN Frac(actionClips, total) ELSE Frac(1, 2)
  IN IF m.clipsTotal >= MIN_SAMPLES_FOR_TRAIT
     THEN <<Trait("captureStyle", MinOne(m.clipsTotal, 15), OneMinus(actionFocus),
                  ExistingConfirmation(prevTraits, "captureStyle"))>>
     ELSE <<>>

NewTraits(prevTraits, m) ==
  ExplorationTrait(prevTraits, m) \o DecisionTrait(prevTraits, m)
    \o InsightTrait(prevTraits, m) \o CaptureTrait(prevTraits, m)

\* trackMetric(metric, value): a record-typed metric is left alone.
TrackMetric(metric, value) ==
  /\ tracks < MaxTracks
  /\ tracks' = tracks + 1
  /\ metrics' = IF metric \in NumberMetrics
                THEN [metrics EXCEPT ![metric] = @ + value]
                ELSE metrics
  /\ UNCHANGED <<traits, observations, now, nextId, lastOp, analyzerVars, clientVars>>

\* trackClipByCategory(categoryId)
TrackClipByCategory(categoryId) ==
  /\ tracks < MaxTracks
  /\ tracks' = tracks + 1
  /\ metrics' = [metrics EXCEPT !.clipsTotal = @ + 1,
                                !.clipsByCategory[categoryId] = @ + 1]
  /\ UNCHANGED <<traits, observations, now, nextId, lastOp, analyzerVars, clientVars>>

\* analyzePatterns()
AnalyzePatterns ==
  /\ UNCHANGED <<metrics, observations, now, tracks, nextId, lastOp, analyzerVars, clientVars>>
  /\ traits' = IF Len(NewTraits(traits, metrics)) > 0
               THEN NewTraits(traits, metrics)
               ELSE traits

\* ---- generateObservations: the cooldown, then the five conditions
Age(o) == now - o.createdAt

\* observations.find(o => !o.dismissed && age < OBSERVATION_COOLDOWN_MS)
RecentObservation(obs) ==
  \E i \in 1..Len(obs) : ~obs[i].dismissed /\ Age(obs[i]) < OBSERVATION_COOLDOWN_MS

\* observations.some(o => o.traitId === traitId && !o.dismissed)
HasPending(obs, traitId) ==
  \E i \in 1..Len(obs) : obs[i].traitId = traitId /\ ~obs[i].dismissed

Unasked(t) == t.confirmedByUser = <<>>

HighExploration(ts, obs) ==
  LET explorationTrait == FindTrait(ts, "explorationTendency")
  IN /\ explorationTrait # <<>>
     /\ Greater(explorationTrait[1].confidence, Frac(1, 2))
     /\ Greater(explorationTrait[1].value, Frac(7, 10))
     /\ Unasked(explorationTrait[1])
     /\ ~HasPending(obs, "explorationTendency")

LowExploration(ts, obs) ==
  LET explorationTrait == FindTrait(ts, "explorationTendency")
  IN /\ explorationTrait # <<>>
     /\ Greater(explorationTrait[1].confidence, Frac(1, 2))
     /\ Less(explorationTrait[1].value, Frac(3, 10))
     /\ Unasked(explorationTrait[1])
     /\ ~HasPending(obs, "explorationTendency")

QuickDecider(ts, obs) ==
  LET decisionTrait == FindTrait(ts, "decisionStyle")
  IN /\ decisionTrait # <<>>
     /\ Greater(decisionTrait[1].confidence, Frac(1, 2))
     /\ Less(decisionTrait[1].value, Frac(3, 10))
     /\ Unasked(decisionTrait[1])
     /\ ~HasPending(obs, "decisionStyle")

ActionPileup(m, obs) ==
  /\ m.actionItemsCreated >= 5
  /\ Less(Frac(m.actionItemsCompleted, Max(1, m.actionItemsCreated)), Frac(3, 10))
  /\ ~HasPending(obs, "actionPileup")

InsightIgnorerAsksAgain(ts, obs) ==
  LET insightTrait == FindTrait(ts, "insightReceptivity")
  IN /\ insightTrait # <<>>
     /\ Greater(insightTrait[1].confidence, Frac(1, 2))
     /\ Less(insightTrait[1].value, Frac(2, 10))
     /\ ~HasPending(obs, "insightReceptivity")

InsightIgnorer(ts, obs) ==
  LET insightTrait == FindTrait(ts, "insightReceptivity")
  IN /\ insightTrait # <<>>
     /\ Greater(insightTrait[1].confidence, Frac(1, 2))
     /\ Less(insightTrait[1].value, Frac(2, 10))
     /\ Unasked(insightTrait[1])
     /\ ~HasPending(obs, "insightReceptivity")

\* The (traitId, priority) pairs pushed by one pass, in the code's order.
Pushed(ts, m, obs) ==
  (IF HighExploration(ts, obs) THEN <<<<"explorationTendency", "medium">>>> ELSE <<>>)
  \o (IF LowExploration(ts, obs) THEN <<<<"explorationTendency", "low">>>> ELSE <<>>)
  \o (IF QuickDecider(ts, obs) THEN <<<<"decisionStyle", "medium">>>> ELSE <<>>)
  \o (IF ActionPileup(m, obs) THEN <<<<"actionPileup", "medium">>>> ELSE <<>>)
  \o (IF InsightIgnorer(ts, obs) THEN <<<<"insightReceptivity", "low">>>> ELSE <<>>)

NewObservations(ts, m, obs, firstId) ==
  LET pushed == Pushed(ts, m, obs)
  IN obs \o [i \in 1..Len(pushed) |->
               [id |-> firstId + i - 1, traitId |-> pushed[i][1],
                priority |-> pushed[i][2], createdAt |-> now, dismissed |-> FALSE]]

\* generateObservations()
GenerateObservations ==
  /\ UNCHANGED <<metrics, traits, now, tracks, lastOp, analyzerVars, clientVars>>
  /\ Len(observations) < MaxObservations
  /\ IF RecentObservation(observations)
     THEN UNCHANGED <<observations, nextId>>
     ELSE /\ observations' = NewObservations(traits, metrics, observations, nextId)
          /\ nextId' = nextId + Len(Pushed(traits, metrics, observations))

\* ---- respondToObservation(observationId, response)
Responses == {"confirm", "deny", "dismiss"}

FindObservation(obs, observationId) ==
  SelectSeq(obs, LAMBDA o : o.id = observationId)

UpdatedObservations(obs, observationId) ==
  [i \in 1..Len(obs) |->
     IF obs[i].id = observationId THEN [obs[i] EXCEPT !.dismissed = TRUE] ELSE obs[i]]

UpdatedTraitsAlways(ts, observation, response) ==
  [i \in 1..Len(ts) |->
     IF ts[i].id = observation.traitId
     THEN [ts[i] EXCEPT !.confirmedByUser = <<response = "confirm">>]
     ELSE ts[i]]

UpdatedTraits(ts, observation, response) ==
  IF response # "dismiss"
  THEN [i \in 1..Len(ts) |->
          IF ts[i].id = observation.traitId
          THEN [ts[i] EXCEPT !.confirmedByUser = <<response = "confirm">>]
          ELSE ts[i]]
  ELSE ts

RespondToObservation(observationId, response) ==
  /\ UNCHANGED <<metrics, now, tracks, nextId>>
  /\ LET observation == FindObservation(observations, observationId)
     IN IF observation = <<>>
        THEN UNCHANGED <<observations, traits>>
        ELSE /\ observations' = UpdatedObservations(observations, observationId)
             /\ traits' = UpdatedTraits(traits, observation[1], response)
  /\ UNCHANGED <<lastOp, analyzerVars, clientVars>>

\* ---- getTraitValue(traitId): <<>> is null
GetTraitValueIgnoringDenial(ts, traitId) ==
  LET trait == FindTrait(ts, traitId)
  IN IF trait = <<>> \/ Less(trait[1].confidence, Frac(3, 10)) THEN <<>>
     ELSE <<trait[1].value>>

GetTraitValue(ts, traitId) ==
  LET trait == FindTrait(ts, traitId)
  IN IF trait = <<>> \/ Less(trait[1].confidence, Frac(3, 10)) THEN <<>>
     ELSE IF trait[1].confirmedByUser = <<FALSE>> THEN <<Frac(1, 2)>>
     ELSE <<trait[1].value>>

\* ---- getPersonalizationHints(): a key is present only for a non-null value
HintKeys(ts) ==
  {k \in {"driftSensitivity", "promptForAlternatives", "insightFrequency"} :
     \/ k = "driftSensitivity" /\ GetTraitValue(ts, "explorationTendency") # <<>>
     \/ k = "promptForAlternatives" /\ GetTraitValue(ts, "decisionStyle") # <<>>
     \/ k = "insightFrequency" /\ GetTraitValue(ts, "insightReceptivity") # <<>>}

GetPersonalizationHints(ts) ==
  LET exploration == GetTraitValue(ts, "explorationTendency")
      decision == GetTraitValue(ts, "decisionStyle")
      insight == GetTraitValue(ts, "insightReceptivity")
  IN [k \in HintKeys(ts) |->
        CASE k = "driftSensitivity" ->
               IF Greater(exploration[1], Frac(6, 10)) THEN "low"
               ELSE IF Less(exploration[1], Frac(4, 10)) THEN "high"
               ELSE "medium"
          [] k = "promptForAlternatives" ->
               IF Less(decision[1], Frac(4, 10)) THEN "yes" ELSE "no"
          [] k = "insightFrequency" ->
               IF Greater(insight[1], Frac(6, 10)) THEN "high"
               ELSE IF Less(insight[1], Frac(3, 10)) THEN "low"
               ELSE "medium"]

\* The decision with the low sensitivity taking the threshold of the high one.
ShouldAlertLowEarly(hints, isDrifting, matchRatio) ==
  LET sensitivity == IF "driftSensitivity" \in DOMAIN hints
                     THEN hints["driftSensitivity"] ELSE "absent"
  IN IF sensitivity = "low" THEN Less(matchRatio, Frac(35, 100))
     ELSE IF sensitivity = "high" THEN isDrifting \/ Less(matchRatio, Frac(35, 100))
     ELSE isDrifting

\* ---- App: the drift-alert decision from the hints and the client-side check
ShouldAlert(hints, isDrifting, matchRatio) ==
  LET sensitivity == IF "driftSensitivity" \in DOMAIN hints
                     THEN hints["driftSensitivity"] ELSE "absent"
  IN IF sensitivity = "low" THEN isDrifting /\ Less(matchRatio, Frac(15, 100))
     ELSE IF sensitivity = "high" THEN isDrifting \/ Less(matchRatio, Frac(35, 100))
     ELSE isDrifting

\* The clock advances.
Tick ==
  /\ UNCHANGED <<metrics, traits, observations, tracks, nextId, lastOp, analyzerVars, clientVars>>
  /\ now < MaxTicks * TickMs
  /\ now' = now + TickMs

\* =========================================================================
\* Part III - the client-side analysis and the App's drift effect
\* =========================================================================

\* useClientSideAnalysis as constructed
InitClientHook ==
  [actionItems |-> <<>>, highlightedMessages |-> {}, processedMessagesRef |-> {}]

\* The ids of the messages the client-side analysis is handed: those of the
\* transcripts' last messages.
MessageIds == (MaxTranscript - 1)..MaxTranscript

NoCalls == [id \in MessageIds |-> 0]

Called(calls, id) == [calls EXCEPT ![id] = IF @ = 0 THEN 1 ELSE 2]

\* No call of the drift check's functions is under way.
KeywordsAtRest ==
  /\ driftMessages = <<>>
  /\ goalString = <<>>
  /\ goalKeywords = <<>>
  /\ driftCheck = <<>>

ClientAtRest ==
  /\ clientHook = InitClientHook
  /\ driftAlert = FALSE
  /\ analyzeCalls = NoCalls
  /\ KeywordsAtRest

\* ---- strings as sequences of characters
WhiteSpace == {" ", "\t", "\n", "\r"}
LineTerminators == {"\n", "\r"}

ToUpperCaseChar(c) ==
  IF \E i \in 1..26 : LowerCaseLetters[i] = c
  THEN UpperCaseLetters[CHOOSE i \in 1..26 : LowerCaseLetters[i] = c]
  ELSE c

\* The bounds of the text without the white space at its ends.
Strip(text, kept) ==
  IF kept = {} THEN <<>> ELSE SubSeq(text, Smallest(kept), Largest(kept))

\* String.prototype.trim
Trim(text) == Strip(text, {i \in 1..Len(text) : text[i] \notin WhiteSpace})

\* text.charAt(0).toUpperCase() + text.slice(1)
Capitalize(text) ==
  IF text = <<>> THEN <<>> ELSE <<ToUpperCaseChar(text[1])>> \o Tail(text)

\* String.prototype.includes
Includes(text, part) ==
  \E p \in 1..(Len(text) - Len(part) + 1) : SubSeq(text, p, p + Len(part) - 1) = part

\* ---- the inputs

ExampleContent ==
  <<"I", " ", "n", "e", "e", "d", " ", "t", "o", " ", "r", "e", "f", "a",
  "c", "t", "o", "r", " ", "t", "h", "e", " ", "a", "u", "t", "h", " ",
  "m", "o", "d", "u", "l", "e", ".", " ", "L", "e", "t", "'", "s", " ",
  "a", "l", "s", "o", " ", "c", "o", "n", "s", "i", "d", "e", "r", " ",
  "a", "d", "d", "i", "n", "g", " ", "t", "e", "s", "t", "s", ".">>

RepeatContent ==
  <<"W", "e", " ", "n", "e", "e", "d", " ", "t", "o", " ", "w", "r", "i",
  "t", "e", " ", "t", "e", "s", "t", "s", ".", " ", "T", "O", "D", "O",
  ":", " ", "w", "r", "i", "t", "e", " ", "t", "e", "s", "t", "s", ".">>

ShoutContent ==
  <<"T", "O", "D", "O", ":", " ", "W", "R", "I", "T", "E", " ", "T", "E",
  "S", "T", "S">>

OnGoalContent ==
  <<"N", "e", "x", "t", ",", " ", "b", "u", "i", "l", "d", " ", "t", "h",
  "e", " ", "R", "E", "S", "T", " ", "A", "P", "I", ".">>

PartGoalContent ==
  <<"T", "h", "e", " ", "t", "o", "d", "o", " ", "l", "i", "s", "t">>

OffGoalContent ==
  <<"C", "a", "t", "s", " ", "a", "r", "e", " ", "i", "m", "p", "o", "r",
  "t", "a", "n", "t">>

ManualText ==
  <<"S", "h", "i", "p">>

EmptyGoal ==
  <<>>

StopWordGoal ==
  <<"H", "e", "l", "p", " ", "m", "e", "!">>

ExampleGoal ==
  <<"B", "u", "i", "l", "d", " ", "a", " ", "R", "E", "S", "T", " ", "A",
  "P", "I", " ", "f", "o", "r", " ", "t", "o", "d", "o", " ", "a", "p",
  "p">>

RepeatGoal ==
  <<"T", "o", "d", "o", ":", " ", "t", "h", "e", " ", "t", "o", "d", "o",
  " ", "l", "i", "s", "t", "!">>

LongGoal ==
  <<"B", "u", "i", "l", "d", " ", "R", "E", "S", "T", " ", "A", "P", "I",
  ":", " ", "t", "o", "d", "o", " ", "a", "p", "p", ",", " ", "c", "a",
  "t", "s", ",", " ", "d", "o", "g", "s">>

AnalysisContents == {ExampleContent, RepeatContent, ShoutContent, OffGoalContent}
DriftContents == {OnGoalContent, PartGoalContent, OffGoalContent}
Goals == {EmptyGoal, StopWordGoal, ExampleGoal, RepeatGoal, LongGoal}
Contents == AnalysisContents \cup DriftContents

\* ---- ACTION_PATTERNS.  Every pattern is a head, a lazy capture (.+?) and
\* the end (?:\.|$).  A literal head is the list of the texts its alternation
\* and optional groups can match, in the order the matcher tries them, in
\* lower case (the patterns carry the i flag); the head of the second pattern
\* is a keyword followed by :?\s*.

ACTION_PATTERNS ==
  <<[priority |-> "high", head |-> "literal",
     alternatives |->
       <<<<"i", " ", "n", "e", "e", "d", " ", "t", "o", " ">>,
         <<"i", " ", "h", "a", "v", "e", " ", "t", "o", " ">>,
         <<"i", " ", "w", "a", "n", "t", " ", "t", "o", " ">>,
         <<"i", " ", "s", "h", "o", "u", "l", "d", " ", "t", "o", " ">>,
         <<"i", " ", "m", "u", "s", "t", " ", "t", "o", " ">>,
         <<"i", " ", "w", "i", "l", "l", " ", "t", "o", " ">>,
         <<"w", "e", " ", "n", "e", "e", "d", " ", "t", "o", " ">>,
         <<"w", "e", " ", "h", "a", "v", "e", " ", "t", "o", " ">>,
         <<"w", "e", " ", "w", "a", "n", "t", " ", "t", "o", " ">>,
         <<"w", "e", " ", "s", "h", "o", "u", "l", "d", " ", "t", "o", " ">>,
         <<"w", "e", " ", "m", "u", "s", "t", " ", "t", "o", " ">>,
         <<"w", "e", " ", "w", "i", "l", "l", " ", "t", "o", " ">>>>],
    [priority |-> "high", head |-> "colonSpaces",
     alternatives |->
       <<<<"t", "o", "d", "o">>,
         <<"t", "a", "s", "k">>,
         <<"a", "c", "t", "i", "o", "n">>>>],
    [priority |-> "medium", head |-> "literal",
     alternatives |->
       <<<<"r", "e", "m", "e", "m", "b", "e", "r", " ", "t", "o", " ">>,
         <<"d", "o", "n", "'", "t", " ", "f", "o", "r", "g", "e", "t", " ",
         "t", "o", " ">>>>],
    [priority |-> "medium", head |-> "literal",
     alternatives |->
       <<<<"l", "e", "t", "'", "s", " ">>,
         <<"l", "e", "t", " ", "u", "s", " ">>>>],
    [priority |-> "medium", head |-> "literal",
     alternatives |->
       <<<<"m", "a", "k", "e", " ", "s", "u", "r", "e", " ", "t", "o", " ">>,
         <<"m", "a", "k", "e", " ", "s", "u", "r", "e", " ">>,
         <<"e", "n", "s", "u", "r", "e", " ", "t", "o", " ">>,
         <<"e", "n", "s", "u", "r", "e", " ">>>>],
    [priority |-> "medium", head |-> "literal",
     alternatives |->
       <<<<"n", "e", "x", "t", " ", "s", "t", "e", "p", " ">>,
         <<"n", "e", "x", "t", ",", " ">>>>],
    [priority |-> "low", head |-> "literal",
     alternatives |->
       <<<<"c", "o", "n", "s", "i", "d", "e", "r", " ">>,
         <<"t", "h", "i", "n", "k", " ", "a", "b", "o", "u", "t", " ">>>>],
    [priority |-> "low", head |-> "literal",
     alternatives |->
       <<<<"m", "i", "g", "h", "t", " ", "w", "a", "n", "t", " ", "t", "o",
         " ">>,
         <<"c", "o", "u", "l", "d", " ">>>>]>>


\* The head alternative matches content at position p, ignoring case.
MatchesAt(content, p, literal) ==
  /\ p + Len(literal) - 1 <= Len(content)
  /\ \A k \in 1..Len(literal) : ToLowerCaseChar(content[p + k - 1]) = literal[k]

\* \s* at position q: the positions at which the capture can start, the
\* greedy choice first.
Descending(q, longest) == [k \in 1..(longest + 1) |-> q + longest - (k - 1)]

SpacesFrom(content, q) ==
  Descending(q, Largest({w \in 0..(Len(content) - q + 1) :
                           \A k \in q..(q + w - 1) : content[k] \in WhiteSpace}))

\* :?\s* at position q: with the colon first, then without it.
ColonSpacesFrom(content, q) ==
  (IF q <= Len(content) /\ content[q] = ":"
   THEN SpacesFrom(content, q + 1) ELSE <<>>)
  \o SpacesFrom(content, q)

\* The positions at which the capture can start when one alternative of the
\* head is matched at position p.
StartsAfter(pattern, content, p, literal) ==
  IF ~MatchesAt(content, p, literal) THEN <<>>
  ELSE IF pattern.head = "literal" THEN <<p + Len(literal)>>
  ELSE ColonSpacesFrom(content, p + Len(literal))

\* The same for the alternatives from the k-th on, in the order the matcher
\* tries them.
RECURSIVE StartsFrom(_, _, _, _)
StartsFrom(pattern, content, p, k) ==
  IF k > Len(pattern.alternatives) THEN <<>>
  ELSE StartsAfter(pattern, content, p, pattern.alternatives[k])
       \o StartsFrom(pattern, content, p, k + 1)

CaptureStarts(pattern, content, p) == StartsFrom(pattern, content, p, 1)

\* (.+)$ from position s
CaptureEndsGreedy(content, s) ==
  {e \in s..Len(content) :
     /\ \A k \in s..e : content[k] \notin LineTerminators
     /\ e = Len(content)}

\* (.+?)(?:\.|$) from position s: the last positions of the captures that
\* end before a full stop or at the end of the content; "." does not match
\* a line terminator.
CaptureEnds(content, s) ==
  {e \in s..Len(content) :
     /\ \A k \in s..e : content[k] \notin LineTerminators
     /\ (e = Len(content) \/ content[e + 1] = ".")}

\* A match: the capture's bounds and the position after the match.
Span(s, e, n) ==
  <<[first |-> s, last |-> e, next |-> IF e = n THEN e + 1 ELSE e + 2]>>

\* The candidate starts from which the capture can be completed.
GoodStarts(content, starts) ==
  {k \in 1..Len(starts) : CaptureEnds(content, starts[k]) # {}}

\* The match the matcher settles on: the first good start, the shortest
\* capture.
FirstSpan(content, starts, good) ==
  IF good = {} THEN <<>>
  ELSE Span(starts[Smallest(good)],
            Smallest(CaptureEnds(content, starts[Smallest(good)])),
            Len(content))

StartedSpan(content, starts) ==
  FirstSpan(content, starts, GoodStarts(content, starts))

\* The match with the head at position p: <<>> or <<[first, last, next]>>.
MatchAt(pattern, content, p) ==
  StartedSpan(content, CaptureStarts(pattern, content, p))

\* pattern.exec(content) with lastIndex at `from`: the leftmost match.
Heads(pattern, content, from) ==
  {p \in from..Len(content) : MatchAt(pattern, content, p) # <<>>}

LeftmostMatch(pattern, content, heads) ==
  IF heads = {} THEN <<>> ELSE MatchAt(pattern, content, Smallest(heads))

Exec(pattern, content, from) ==
  LeftmostMatch(pattern, content, Heads(pattern, content, from))

\* while ((match = pattern.exec(content)) !== null): the captures, in order.
RECURSIVE Captures(_, _, _)
CapturesAfter(pattern, content, match) ==
  IF match = <<>> THEN <<>>
  ELSE <<SubSeq(content, match[1].first, match[1].last)>>
       \o Captures(pattern, content, match[1].next)

Captures(pattern, content, from) ==
  CapturesAfter(pattern, content, Exec(pattern, content, from))

\* text && text.length > 5 && text.length < 200
MinTextLength == 5
MaxTextLength == 200
Accepted(text) == Len(text) > MinTextLength /\ Len(text) < MaxTextLength

\* match[1]?.trim()
Trimmed(texts) == [k \in 1..Len(texts) |-> Trim(texts[k])]

WithPriority(texts, priority) ==
  [k \in 1..Len(texts) |-> [text |-> Capitalize(texts[k]), priority |-> priority]]

\* The (text, priority) pairs one pattern contributes.
PatternItems(pattern, content) ==
  WithPriority(SelectSeq(Trimmed(Captures(pattern, content, 1)), Accepted),
               pattern.priority)

RECURSIVE Extracted(_, _)
Extracted(content, k) ==
  IF k > Len(ACTION_PATTERNS) THEN <<>>
  ELSE PatternItems(ACTION_PATTERNS[k], content) \o Extracted(content, k + 1)

\* The extraction from each content the machines use, computed once.
ExtractedFrom == [content \in Contents |-> Extracted(content, 1)]

\* generateId() for each item, in the order the items are pushed
Numbered(found, messageId, firstId) ==
  [k \in 1..Len(found) |->
     [id |-> firstId + k - 1, text |-> found[k].text, completed |-> FALSE,
      messageId |-> messageId, priority |-> found[k].priority]]

\* extractActionItems(message): nothing for a message the assistant did not
\* write.
ExtractActionItems(message, firstId) ==
  Numbered(IF message.role # "assistant" THEN <<>>
           ELSE ExtractedFrom[message.content],
           message.id, firstId)

HIGHLIGHT_KEYWORDS ==
  <<<<"b", "r", "e", "a", "k", "t", "h", "r", "o", "u", "g", "h">>,
    <<"r", "e", "a", "l", "i", "z", "e", "d">>,
    <<"a", "h", "a">>,
    <<"i", "n", "s", "i", "g", "h", "t">>,
    <<"k", "e", "y", " ", "p", "o", "i", "n", "t">>,
    <<"i", "m", "p", "o", "r", "t", "a", "n", "t">>,
    <<"c", "r", "u", "c", "i", "a", "l">>,
    <<"e", "s", "s", "e", "n", "t", "i", "a", "l">>,
    <<"f", "i", "n", "a", "l", "l", "y">>,
    <<"g", "o", "t", " ", "i", "t">>,
    <<"m", "a", "k", "e", "s", " ", "s", "e", "n", "s", "e">>,
    <<"c", "l", "i", "c", "k", "i", "n", "g">>,
    <<"c", "o", "n", "n", "e", "c", "t", "e", "d">>,
    <<"p", "a", "t", "t", "e", "r", "n">>,
    <<"u", "n", "d", "e", "r", "l", "y", "i", "n", "g">>,
    <<"r", "o", "o", "t", " ", "c", "a", "u", "s", "e">>,
    <<"s", "o", "l", "u", "t", "i", "o", "n">>>>

\* checkForHighlight(message)
Highlights(content) ==
  \E k \in 1..Len(HIGHLIGHT_KEYWORDS) :
    Includes(ToLowerCase(content), HIGHLIGHT_KEYWORDS[k])

HighlightsIn == [content \in Contents |-> Highlights(content)]

CheckForHighlight(message) == HighlightsIn[message.content]

\* processedMessagesRef.current.add(message.id)
MarkProcessedOnlyWithItems(hook, message) ==
  IF message.role = "assistant" /\ ExtractedFrom[message.content] # <<>>
  THEN hook.processedMessagesRef \cup {message.id}
  ELSE hook.processedMessagesRef

MarkProcessed(hook, message) == hook.processedMessagesRef \cup {message.id}

\* The items of newItems that setActionItems appends: those whose text, in
\* lower case, is not the text of an item already in the list.
ExistingTexts(prev) == {ToLowerCase(prev[i].text) : i \in 1..Len(prev)}

UniqueItems(prev, newItems) ==
  SelectSeq(newItems,
            LAMBDA item : ToLowerCase(item.text) \notin ExistingTexts(prev))

\* The ids analyzeMessage(message) draws from generateId.
IdsDrawn(hook, message) ==
  IF message.id \in hook.processedMessagesRef THEN 0
  ELSE Len(ExtractActionItems(message, 0))

\* The hook after analyzeMessage(message).
Analyzed(hook, message, firstId) ==
  IF message.id \in hook.processedMessagesRef THEN hook
  ELSE [actionItems |->
          hook.actionItems
          \o UniqueItems(hook.actionItems, ExtractActionItems(message, firstId)),
        highlightedMessages |->
          IF CheckForHighlight(message)
          THEN hook.highlightedMessages \cup {message.id}
          ELSE hook.highlightedMessages,
        processedMessagesRef |-> MarkProcessed(hook, message)]

\* ---- extractGoalKeywords
StopWords ==
  {<<"t", "h", "e">>,
   <<"a">>,
   <<"a", "n">>,
   <<"a", "n", "d">>,
   <<"o", "r">>,
   <<"b", "u", "t">>,
   <<"i", "n">>,
   <<"o", "n">>,
   <<"a", "t">>,
   <<"t", "o">>,
   <<"f", "o", "r">>,
   <<"o", "f">>,
   <<"w", "i", "t", "h">>,
   <<"b", "y">>,
   <<"f", "r", "o", "m">>,
   <<"a", "s">>,
   <<"i", "s">>,
   <<"w", "a", "s">>,
   <<"a", "r", "e">>,
   <<"w", "e", "r", "e">>,
   <<"b", "e", "e", "n">>,
   <<"b", "e">>,
   <<"h", "a", "v", "e">>,
   <<"h", "a", "s">>,
   <<"h", "a", "d">>,
   <<"d", "o">>,
   <<"d", "o", "e", "s">>,
   <<"d", "i", "d">>,
   <<"w", "i", "l", "l">>,
   <<"w", "o", "u", "l", "d">>,
   <<"c", "o", "u", "l", "d">>,
   <<"s", "h", "o", "u", "l", "d">>,
   <<"m", "a", "y">>,
   <<"m", "i", "g", "h", "t">>,
   <<"m", "u", "s", "t">>,
   <<"s", "h", "a", "l", "l">>,
   <<"c", "a", "n">>,
   <<"n", "e", "e", "d">>,
   <<"d", "a", "r", "e">>,
   <<"o", "u", "g", "h", "t">>,
   <<"u", "s", "e", "d">>,
   <<"t", "h", "i", "s">>,
   <<"t", "h", "a", "t">>,
   <<"t", "h", "e", "s", "e">>,
   <<"t", "h", "o", "s", "e">>,
   <<"i">>,
   <<"y", "o", "u">>,
   <<"h", "e">>,
   <<"s", "h", "e">>,
   <<"i", "t">>,
   <<"w", "e">>,
   <<"t", "h", "e", "y">>,
   <<"w", "h", "a", "t">>,
   <<"w", "h", "i", "c", "h">>,
   <<"w", "h", "o">>,
   <<"w", "h", "o", "m">>,
   <<"w", "h", "o", "s", "e">>,
   <<"w", "h", "e", "r", "e">>,
   <<"w", "h", "e", "n">>,
   <<"w", "h", "y">>,
   <<"h", "o", "w">>,
   <<"a", "l", "l">>,
   <<"e", "a", "c", "h">>,
   <<"e", "v", "e", "r", "y">>,
   <<"b", "o", "t", "h">>,
   <<"f", "e", "w">>,
   <<"m", "o", "r", "e">>,
   <<"m", "o", "s", "t">>,
   <<"o", "t", "h", "e", "r">>,
   <<"s", "o", "m", "e">>,
   <<"s", "u", "c", "h">>,
   <<"n", "o">>,
   <<"n", "o", "t">>,
   <<"o", "n", "l", "y">>,
   <<"o", "w", "n">>,
   <<"s", "a", "m", "e">>,
   <<"s", "o">>,
   <<"t", "h", "a", "n">>,
   <<"t", "o", "o">>,
   <<"v", "e", "r", "y">>,
   <<"j", "u", "s", "t">>,
   <<"a", "b", "o", "u", "t">>,
   <<"i", "n", "t", "o">>,
   <<"t", "h", "r", "o", "u", "g", "h">>,
   <<"d", "u", "r", "i", "n", "g">>,
   <<"b", "e", "f", "o", "r", "e">>,
   <<"a", "f", "t", "e", "r">>,
   <<"a", "b", "o", "v", "e">>,
   <<"b", "e", "l", "o", "w">>,
   <<"b", "e", "t", "w", "e", "e", "n">>,
   <<"u", "n", "d", "e", "r">>,
   <<"a", "g", "a", "i", "n">>,
   <<"w", "a", "n", "t">>,
   <<"h", "e", "l", "p">>,
   <<"m", "a", "k", "e">>,
   <<"g", "e", "t">>,
   <<"u", "n", "d", "e", "r", "s", "t", "a", "n", "d">>,
   <<"l", "e", "a", "r", "n">>,
   <<"k", "n", "o", "w">>,
   <<"t", "h", "i", "n", "k">>}

Digits == {"0", "1", "2", "3", "4", "5", "6", "7", "8", "9"}

\* \w and \s: the characters replace(/[^\w\s]/g, '') keeps
WordOrSpace(c) ==
  \/ c \in WhiteSpace
  \/ c \in Digits \cup {"_"}
  \/ \E i \in 1..26 : c = LowerCaseLetters[i] \/ c = UpperCaseLetters[i]

\* split(/\s+/): the words of the text, in order (the empty strings the split
\* produces at the ends of the text are not words: the filter removes them)
Words(text) ==
  LET starts == {i \in 1..Len(text) :
                   /\ text[i] \notin WhiteSpace
                   /\ (i = 1 \/ text[i - 1] \in WhiteSpace)}
      end(i) == Smallest({j \in i..Len(text) :
                            j = Len(text) \/ text[j + 1] \in WhiteSpace})
      RECURSIVE from(_)
      from(i) == IF {s \in starts : s >= i} = {} THEN <<>>
                 ELSE LET s == Smallest({t \in starts : t >= i})
                      IN <<SubSeq(text, s, end(s))>> \o from(end(s) + 1)
  IN from(1)

MinWordLength == 2

ExtractGoalKeywords(text) ==
  LET kept == SelectSeq(ToLowerCase(text), WordOrSpace)
      keyword(word) == Len(word) > MinWordLength /\ word \notin StopWords
  IN SelectSeq(Words(kept), keyword)

\* ---- checkDriftClientSide
MinMessages == 6
RecentMessages == 4

\* messages.slice(-4).map(m => m.content.toLowerCase()).join(' ')
RECURSIVE Join(_)
Join(texts) ==
  IF texts = <<>> THEN <<>>
  ELSE IF Len(texts) = 1 THEN texts[1]
  ELSE texts[1] \o <<" ">> \o Join(Tail(texts))

\* messages.map(m => m.content.toLowerCase()).join(' ')
RecentTextOfAll(transcript) ==
  Join([k \in 1..Len(transcript) |-> ToLowerCase(transcript[k].content)])

RecentText(transcript) ==
  LET first == IF Len(transcript) > RecentMessages
               THEN Len(transcript) - RecentMessages + 1 ELSE 1
  IN Join([k \in 1..(Len(transcript) - first + 1) |->
             ToLowerCase(transcript[first + k - 1].content)])

\* matchRatio < 0.15
DriftThreshold == Frac(15, 100)

\* The check with matchRatio 0 for the transcripts it does not look at.
CheckDriftClientSideRatioZero(transcript, keywords) ==
  IF Len(transcript) < MinMessages \/ Len(keywords) = 0
  THEN [isDrifting |-> FALSE, matchRatio |-> Frac(0, 1)]
  ELSE LET matchCount == Cardinality({k \in 1..Len(keywords) :
                             Includes(RecentText(transcript), keywords[k])})
           matchRatio == Frac(matchCount, Len(keywords))
       IN [isDrifting |-> Less(matchRatio, DriftThreshold),
           matchRatio |-> matchRatio]

CheckDriftClientSide(transcript, keywords) ==
  IF Len(transcript) < MinMessages \/ Len(keywords) = 0
  THEN [isDrifting |-> FALSE, matchRatio |-> Frac(1, 1)]
  ELSE LET matchCount == Cardinality({k \in 1..Len(keywords) :
                             Includes(RecentText(transcript), keywords[k])})
           matchRatio == Frac(matchCount, Len(keywords))
       IN [isDrifting |-> Less(matchRatio, DriftThreshold),
           matchRatio |-> matchRatio]

\* ---- the transcripts and the messages
Roles == {"user", "assistant"}
Priorities == {"high", "medium"}

\* A transcript of n messages that alternates user and assistant: the
\* messages before the last four say `early`, the recent ones `recent`, and
\* the last one, written by lastRole, says `last`.
Transcript(n, early, recent, last, lastRole) ==
  [i \in 1..n |->
     [id |-> i,
      role |-> IF i = n THEN lastRole
               ELSE IF i % 2 = 1 THEN "user" ELSE "assistant",
      content |-> IF i = n THEN last
                  ELSE IF i > n - RecentMessages THEN recent ELSE early]]

Transcripts ==
  {Transcript(n, early, recent, last, lastRole) :
     n \in (MaxTranscript - 1)..MaxTranscript,
     early \in DriftContents, recent \in DriftContents, last \in DriftContents,
     lastRole \in Roles}

\* The transcripts the App's effect runs on: the messages before the last
\* one all say the same.
AppTranscripts ==
  {transcript \in Transcripts :
     transcript[1].content = transcript[Len(transcript) - 1].content}

\* The messages analyzeMessage is called with directly.
ClientMessages == [id : MessageIds, role : Roles, content : AnalysisContents]

\* The keywords of each goal and the drift check of each transcript against
\* them, computed once.
GoalKeywordsOf == [text \in Goals |-> ExtractGoalKeywords(text)]

DriftCheckOf ==
  [transcript \in Transcripts |->
     [text \in Goals |-> CheckDriftClientSide(transcript, GoalKeywordsOf[text])]]

\* ---- the hook's operations
\* analyzeMessage(message)
AnalyzeMessage(message) ==
  /\ nextId + IdsDrawn(clientHook, message) - 1 <= MaxItemIds
  /\ clientHook' = Analyzed(clientHook, message, nextId)
  /\ nextId' = nextId + IdsDrawn(clientHook, message)
  /\ analyzeCalls' = Called(analyzeCalls, message.id)
  /\ UNCHANGED <<driftAlert, keywordVars, cognitionVars, lastOp, analyzerVars, profileVars>>

\* toggleActionItem(id)
ToggleActionItem(id) ==
  /\ clientHook' =
       [clientHook EXCEPT !.actionItems =
          [i \in 1..Len(@) |->
             IF @[i].id = id THEN [@[i] EXCEPT !.completed = ~@] ELSE @[i]]]
  /\ UNCHANGED <<driftAlert, analyzeCalls, keywordVars, cognitionVars, nextId, lastOp,
                 analyzerVars, profileVars>>

\* dismissActionItem(id)
DismissActionItem(id) ==
  /\ clientHook' =
       [clientHook EXCEPT !.actionItems =
          SelectSeq(@, LAMBDA item : item.id # id)]
  /\ UNCHANGED <<driftAlert, analyzeCalls, keywordVars, cognitionVars, nextId, lastOp,
                 analyzerVars, profileVars>>

\* addActionItem(text, priority): a manual item belongs to no message
AddActionItem(text, priority) ==
  /\ nextId <= MaxItemIds
  /\ clientHook' =
       [clientHook EXCEPT !.actionItems =
          Append(@, [id |-> nextId, text |-> text, completed |-> FALSE,
                     messageId |-> 0, priority |-> priority])]
  /\ nextId' = nextId + 1
  /\ UNCHANGED <<driftAlert, analyzeCalls, keywordVars, cognitionVars, lastOp, analyzerVars,
                 profileVars>>

\* reset()
ClientReset ==
  /\ clientHook' = InitClientHook
  /\ analyzeCalls' = NoCalls
  /\ UNCHANGED <<driftAlert, keywordVars, cognitionVars, nextId, lastOp, analyzerVars,
                 profileVars>>

\* ---- the App
\* The effect that runs when the transcript changes: when its last message
\* is the assistant's, it analyzes that message, checks the drift and, with
\* the sensitivity the profile's hints give, sets the alert and counts a
\* tangent.  (updateMomentum belongs to another hook: DriftDecision is the
\* effect without it.)
DriftDecision(transcript, text) ==
  LET lastMessage == transcript[Len(transcript)]
      hints == GetPersonalizationHints(traits)
      check == DriftCheckOf[transcript][text]
      shouldAlert == ShouldAlert(hints, check.isDrifting, check.matchRatio)
  IN /\ UNCHANGED <<keywordVars, cognitiveProfile, moduleDefaults, merges,
                    mergeArgument, lastOp, analyzerVars, traits, observations,
                    now>>
     /\ IF Len(transcript) > 0 /\ lastMessage.role = "assistant"
        THEN /\ IF shouldAlert
                THEN /\ tracks < MaxTracks
                     /\ tracks' = tracks + 1
                     /\ driftAlert' = TRUE
                     /\ metrics' = [metrics EXCEPT !.tangentCount = @ + 1]
                ELSE UNCHANGED <<driftAlert, metrics, tracks>>
             /\ nextId + IdsDrawn(clientHook, lastMessage) - 1 <= MaxItemIds
             /\ nextId' = nextId + IdsDrawn(clientHook, lastMessage)
             /\ analyzeCalls' = Called(analyzeCalls, lastMessage.id)
             /\ clientHook' = Analyzed(clientHook, lastMessage, nextId)
        ELSE UNCHANGED <<clientHook, nextId, analyzeCalls, driftAlert, metrics,
                         tracks>>

DriftEffect(transcript, text) ==
  /\ DriftDecision(transcript, text)
  /\ UNCHANGED conversation

\* The alert is dismissed: setDriftAlert(null).
DismissDriftAlert ==
  /\ driftAlert' = FALSE
  /\ UNCHANGED <<clientHook, analyzeCalls, keywordVars, cognitionVars, nextId, lastOp,
                 analyzerVars, profileVars>>

\* ---- the two functions of the drift check, applied to drawn inputs
ApplyExtractGoalKeywords ==
  /\ goalKeywords = <<>>
  /\ goalKeywords' = <<ExtractGoalKeywords(goalString)>>
  /\ UNCHANGED <<cognitionVars, driftMessages, goalString, driftCheck, clientHook, driftAlert,
                 analyzeCalls, nextId, lastOp, analyzerVars, profileVars>>

ApplyCheckDriftClientSide ==
  /\ goalKeywords # <<>>
  /\ driftCheck = <<>>
  /\ driftCheck' = <<CheckDriftClientSide(driftMessages, goalKeywords[1])>>
  /\ UNCHANGED <<cognitionVars, driftMessages, goalString, goalKeywords, clientHook, driftAlert,
                 analyzeCalls, nextId, lastOp, analyzerVars, profileVars>>

\* ---------------------------------------------------------------------
\* Part IV. useCognitiveProfile: the profile blend.
\*
\* The axes are JavaScript numbers, IEEE 754 binary64.  A natural number
\* is a sequence of bits, least significant first, without leading zeros;
\* a positive double is a significand of 53 bits, kept as two words, and
\* the exponent of its lowest bit, so that two doubles are equal exactly
\* when their records are.  The values the profile takes stay far from the
\* subnormal and the infinite ranges, and are never negative, so those
\* cases are left out;
\* an observed value that is not a number is the string it is.
\* ---------------------------------------------------------------------

SignificandBits == 53

\* Long arithmetic works on limbs of LimbBits bits, so that a product of
\* two limbs and a column of such products stay below 2^31.
LimbBits == 13

\* The profile keeps a significand in two words of at most StoredBits bits.
StoredBits == 27

Zeros(n) == [i \in 1..n |-> 0]

BitAt(a, i) == IF i <= Len(a) THEN a[i] ELSE 0

RECURSIVE LimbFrom(_, _, _, _)
LimbFrom(bits, from, t, width) ==
  IF t = width THEN 0
  ELSE BitAt(bits, from + t) * 2^t + LimbFrom(bits, from, t + 1, width)

ToLimbs(bits, width) ==
  [j \in 1..((Len(bits) + width - 1) \div width) |->
     LimbFrom(bits, (j - 1) * width + 1, 0, width)]

HighestOne(bits) ==
  CHOOSE i \in 0..Len(bits) :
    /\ i = 0 \/ bits[i] = 1
    /\ \A j \in (i + 1)..Len(bits) : bits[j] = 0

LimbsBits(limbs, width) ==
  [i \in 1..(width * Len(limbs)) |->
     (limbs[(i - 1) \div width + 1] \div 2^((i - 1) % width)) % 2]

ToBits(limbs, width) ==
  SubSeq(LimbsBits(limbs, width), 1, HighestOne(LimbsBits(limbs, width)))

\* The limbs of the number whose k-th column holds columns[k]: each column
\* keeps its low limb and carries the rest to the next.
RECURSIVE Propagate(_, _, _)
Propagate(columns, carry, limbs) ==
  IF Len(limbs) = Len(columns)
  THEN IF carry = 0 THEN limbs ELSE Append(limbs, carry)
  ELSE Propagate(columns,
                 (columns[Len(limbs) + 1] + carry) \div 2^LimbBits,
                 Append(limbs, (columns[Len(limbs) + 1] + carry) % 2^LimbBits))

LimbAt(limbs, j) == IF j >= 1 /\ j <= Len(limbs) THEN limbs[j] ELSE 0

AddLimbs(a, b) ==
  Propagate([k \in 1..(IF Len(a) >= Len(b) THEN Len(a) ELSE Len(b)) |->
               LimbAt(a, k) + LimbAt(b, k)], 0, <<>>)

AddBits(a, b) ==
  ToBits(AddLimbs(ToLimbs(a, LimbBits), ToLimbs(b, LimbBits)), LimbBits)

\* Column k of the long multiplication: the products a[i] * b[k + 1 - i].
RECURSIVE Column(_, _, _, _)
Column(a, b, k, i) ==
  IF i > Len(a) THEN 0
  ELSE a[i] * LimbAt(b, k + 1 - i) + Column(a, b, k, i + 1)

MulLimbs(a, b) ==
  Propagate([k \in 1..(Len(a) + Len(b)) |-> Column(a, b, k, 1)], 0, <<>>)

MulBits(a, b) ==
  ToBits(MulLimbs(ToLimbs(a, LimbBits), ToLimbs(b, LimbBits)), LimbBits)

\* The double of the given significand bits, and the bits of a double.
Double(bits, exponent) ==
  [significand |-> ToLimbs(bits, StoredBits), exponent |-> exponent]

Significand(x) == ToBits(x.significand, StoredBits)

DoubleZero == Double(<<>>, 0)

\* The significand kept after `dropped` low bits went, rounded up by one.
RoundedUp(kept, exponent) ==
  IF Len(AddBits(kept, <<1>>)) > SignificandBits
  THEN Double(Tail(AddBits(kept, <<1>>)), exponent + 1)
  ELSE Double(AddBits(kept, <<1>>), exponent)

\* Round to nearest, ties to even: the double closest to bits * 2^exponent.
RoundToDouble(bits, exponent) ==
  IF bits = <<>> THEN DoubleZero
  ELSE IF Len(bits) <= SignificandBits
  THEN Double(Zeros(SignificandBits - Len(bits)) \o bits,
              exponent - (SignificandBits - Len(bits)))
  ELSE IF /\ bits[Len(bits) - SignificandBits] = 1
          /\ \/ bits[Len(bits) - SignificandBits + 1] = 1
             \/ \E i \in 1..(Len(bits) - SignificandBits - 1) : bits[i] = 1
  THEN RoundedUp(SubSeq(bits, Len(bits) - SignificandBits + 1, Len(bits)),
                 exponent + Len(bits) - SignificandBits)
  ELSE Double(SubSeq(bits, Len(bits) - SignificandBits + 1, Len(bits)),
              exponent + Len(bits) - SignificandBits)

\* x * y and x + y of JavaScript, for doubles that are not negative.
Times(x, y) ==
  IF x = DoubleZero \/ y = DoubleZero THEN DoubleZero
  ELSE RoundToDouble(MulBits(Significand(x), Significand(y)),
                     x.exponent + y.exponent)

Lower(x, y) == IF x.exponent <= y.exponent THEN x.exponent ELSE y.exponent

Plus(x, y) ==
  IF x = DoubleZero THEN y
  ELSE IF y = DoubleZero THEN x
  ELSE RoundToDouble(
         AddBits(Zeros(x.exponent - Lower(x, y)) \o Significand(x),
                 Zeros(y.exponent - Lower(x, y)) \o Significand(y)),
         Lower(x, y))

\* The double a decimal literal numerator/denominator denotes, for a value
\* below 2: the binary expansion by long division, cut after the bits that
\* decide the rounding, with one more bit set when a remainder is left.
RECURSIVE Expand(_, _, _, _)
Expand(remainder, denominator, bits, exponent) ==
  IF remainder = 0 \/ Len(bits) > SignificandBits
  THEN RoundToDouble(IF remainder = 0 THEN bits ELSE <<1>> \o bits,
                     IF remainder = 0 THEN exponent ELSE exponent - 1)
  ELSE Expand((2 * remainder) % denominator, denominator,
              IF bits = <<>> /\ (2 * remainder) \div denominator = 0
              THEN bits
              ELSE <<(2 * remainder) \div denominator>> \o bits,
              exponent - 1)

Decimal(numerator, denominator) ==
  Expand(numerator % denominator, denominator,
         IF numerator \div denominator = 0 THEN <<>>
         ELSE <<numerator \div denominator>>, 0)

\* x < y, for doubles that are not negative: the significands are compared
\* limb by limb, the high limb last in the sequence.
BitsLess(a, b) ==
  \E i \in 1..Len(a) : a[i] < b[i] /\ \A j \in (i + 1)..Len(a) : a[j] = b[j]

DoubleLess(x, y) ==
  IF y = DoubleZero THEN FALSE
  ELSE IF x = DoubleZero THEN TRUE
  ELSE \/ x.exponent < y.exponent
       \/ x.exponent = y.exponent /\ BitsLess(x.significand, y.significand)

\* A whole number below 2^LimbBits as a double.
Whole(n) == RoundToDouble(ToBits(<<n>>, LimbBits), 0)

\* ---- the profile
ThinkingStyles ==
  {"visual", "verbal", "sequential", "associative",
   "analytical", "intuitive", "abstract", "concrete"}

PromptPatterns ==
  {"questionFrequency", "explorationDepth", "tangentTolerance",
   "decisionSpeed", "evidenceNeed"}

ProfilePatterns ==
  PromptPatterns \cup {"averageMessageLength", "collaborativeVsSolo"}

Half == Decimal(5, 10)
One == Whole(1)

DEFAULT_COGNITIVE_PROFILE ==
  [thinkingStyles |-> [k \in ThinkingStyles |-> Half],
   patterns |-> [k \in ProfilePatterns |->
                   IF k = "averageMessageLength" THEN Whole(100) ELSE Half],
   mentalModels |-> <<>>,
   preferences |-> [briefVsDetailed |-> Half,
                    structuredVsFreeform |-> Half,
                    challengeVsSupport |-> Half,
                    pacePreference |-> "moderate"]]

Sections == {"thinkingStyles", "patterns", "mentalModels", "preferences"}

\* Every section of the defaults is the object the profile holds.
AllShared == [section \in {} |-> <<>>]

\* What DEFAULT_COGNITIVE_PROFILE holds, given the profile that may share
\* sections with it.
DefaultsNow(profile, defaults) ==
  [section \in Sections |->
     IF section \in DOMAIN defaults THEN defaults[section] ELSE profile[section]]

\* createEmptyProfile spreads the defaults: the new profile holds their
\* section objects, not copies.
CreateEmptyProfile(profile, defaults) == DefaultsNow(profile, defaults)

\* Nothing is saved: loadProfile returns createEmptyProfile().
CognitionAtRest ==
  /\ cognitiveProfile = DEFAULT_COGNITIVE_PROFILE
  /\ moduleDefaults = AllShared
  /\ merges = 0
  /\ mergeArgument = <<>>

\* A profile was saved: loadProfile returns the parsed copy.
CognitionLoaded ==
  /\ cognitiveProfile = DEFAULT_COGNITIVE_PROFILE
  /\ moduleDefaults = DEFAULT_COGNITIVE_PROFILE
  /\ merges = 0
  /\ mergeArgument = <<>>

\* ---- values of the parsed response: numbers and strings
Number(x) == [type |-> "number", value |-> x]
String(s) == [type |-> "string", value |-> s]

CurrentWeight == Decimal(7, 10)
ObservedWeight == Decimal(3, 10)

\* current * 0.7 + observed * 0.3
Blend(current, observed) ==
  Plus(Times(current, CurrentWeight), Times(observed, ObservedWeight))

\* The thinking styles after the loop over the keys of update.thinkingStyles:
\* a key the profile does not have is passed over.
MergedStyles(current, update) ==
  IF "thinkingStyles" \notin DOMAIN update THEN current.thinkingStyles
  ELSE [k \in ThinkingStyles |->
          IF k \in DOMAIN update.thinkingStyles
          THEN Blend(current.thinkingStyles[k], update.thinkingStyles[k].value)
          ELSE current.thinkingStyles[k]]

\* The patterns after the loop over the keys of update.patterns: a value
\* that is not a number is passed over as well.
MergedPatterns(current, update) ==
  IF "patterns" \notin DOMAIN update THEN current.patterns
  ELSE [k \in ProfilePatterns |->
          IF k \in DOMAIN update.patterns /\ update.patterns[k].type = "number"
          THEN Blend(current.patterns[k], update.patterns[k].value)
          ELSE current.patterns[k]]

\* ---- the preferences
Truthy(object, field) ==
  /\ field \in DOMAIN object
  /\ IF object[field].type = "number"
     THEN object[field].value # DoubleZero
     ELSE object[field].value # ""

IsNumber(object, field) ==
  /\ field \in DOMAIN object
  /\ object[field].type = "number"

\* The copy of current.preferences with the numbers and the pace the update
\* carries; challengeVsSupport is never taken from the update.
MergedPreferences(current, update) ==
  IF "preferences" \notin DOMAIN update THEN current.preferences
  ELSE [briefVsDetailed |->
          IF IsNumber(update.preferences, "briefVsDetailed")
          THEN update.preferences.briefVsDetailed.value
          ELSE current.preferences.briefVsDetailed,
        structuredVsFreeform |->
          IF IsNumber(update.preferences, "structuredVsFreeform")
          THEN update.preferences.structuredVsFreeform.value
          ELSE current.preferences.structuredVsFreeform,
        challengeVsSupport |-> current.preferences.challengeVsSupport,
        pacePreference |->
          IF Truthy(update.preferences, "pacePreference")
          THEN update.preferences.pacePreference.value
          ELSE current.preferences.pacePreference]

\* ---- the mental models
\* A model's name, description, dates and the random position of a concept
\* are read by no operation and are left out; generateId() is the next
\* unused identifier.
InitialConfidence == Decimal(3, 10)
ConfidenceStep == Decimal(1, 10)

\* Math.min(1, confidence + 0.1)
RaisedConfidence(confidence) ==
  IF DoubleLess(One, Plus(confidence, ConfidenceStep))
  THEN One
  ELSE Plus(confidence, ConfidenceStep)

RECURSIVE ConfidencesFrom(_, _)
ConfidencesFrom(confidence, passes) ==
  IF passes = 0 THEN {confidence}
  ELSE {confidence} \cup ConfidencesFrom(RaisedConfidence(confidence), passes - 1)

\* The confidences MaxMerges passes can reach, and each one raised.
Confidences == ConfidencesFrom(InitialConfidence, MaxMerges + 1)
ConfidenceAfter == [confidence \in Confidences |-> RaisedConfidence(confidence)]

NewModel(id, name) ==
  [id |-> id, name |-> name, concepts |-> <<>>, connections |-> <<>>,
   confidence |-> InitialConfidence]

\* The labels a response may carry: one label in two spellings and another
\* one; toLowerCase() of each, worked out once.
Labels == {TextUpper, TextLower, TextOther}
LowerCased == [label \in Labels |-> ToLowerCase(label)]

\* concepts.find(c => c.label.toLowerCase() === label.toLowerCase()): the
\* position of the first such concept, 0 when there is none.
FindConcept(concepts, label) ==
  IF \E i \in 1..Len(concepts) :
       LowerCased[concepts[i].label] = LowerCased[label]
  THEN CHOOSE i \in 1..Len(concepts) :
         /\ LowerCased[concepts[i].label] = LowerCased[label]
         /\ \A j \in 1..(i - 1) :
              LowerCased[concepts[j].label] # LowerCased[label]
  ELSE 0

\* The importance as a merge would leave it that took the observed one.
MaxImportanceObserved(existing, observed) == observed

\* Math.max(existing.importance, concept.importance)
MaxImportance(existing, observed) ==
  IF DoubleLess(existing, observed) THEN observed ELSE existing

\* One turn of the loop over update.emergingConcepts; the identifiers given
\* so far are base + 1 .. base + Len(concepts).
MergedConcept(concepts, concept, found, base) ==
  IF found = 0
  THEN Append(concepts, [id |-> base + Len(concepts) + 1,
                         label |-> concept.label,
                         importance |-> concept.importance])
  ELSE [concepts EXCEPT
          ![found].importance = MaxImportance(@, concept.importance)]

\* The loop, a turn at a time on the list the turn before left.
RECURSIVE MergedConcepts(_, _, _)
MergedConcepts(concepts, emerging, base) ==
  IF emerging = <<>> THEN concepts
  ELSE CHOOSE merged \in
         {MergedConcepts(next, Tail(emerging), base) :
            next \in {MergedConcept(concepts, Head(emerging),
                                    FindConcept(concepts, Head(emerging).label),
                                    base)}} : TRUE

\* connections.find(c => c.fromId === fromId && c.toId === toId)
FindConnection(connections, fromId, toId) ==
  \E i \in 1..Len(connections) :
    /\ connections[i].fromId = fromId
    /\ connections[i].toId = toId

\* One turn of the loop over update.conceptConnections.
MergedConnection(concepts, connections, conn, from, to, base) ==
  IF /\ from # 0
     /\ to # 0
     /\ ~FindConnection(connections, concepts[from].id, concepts[to].id)
  THEN Append(connections,
              [id |-> base + Len(connections) + 1,
               fromId |-> concepts[from].id,
               toId |-> concepts[to].id,
               type |-> IF Truthy(conn, "type") THEN conn.type.value
                        ELSE "relates",
               strength |-> IF Truthy(conn, "strength") THEN conn.strength.value
                            ELSE Half])
  ELSE connections

RECURSIVE MergedConnections(_, _, _, _)
MergedConnections(concepts, connections, observed, base) ==
  IF observed = <<>> THEN connections
  ELSE CHOOSE merged \in
         {MergedConnections(concepts, next, Tail(observed), base) :
            next \in {MergedConnection(
                        concepts, connections, Head(observed),
                        FindConcept(concepts, Head(observed).from),
                        FindConcept(concepts, Head(observed).to), base)}} : TRUE

\* update.emergingConcepts && update.emergingConcepts.length > 0
HasEmergingConcepts(update) ==
  /\ "emergingConcepts" \in DOMAIN update
  /\ Len(update.emergingConcepts) > 0

\* The target model once its concepts are merged: the connections are
\* merged against the merged concepts, then the confidence is raised.
\* id is the identifier the first new concept takes.
WithConnections(target, concepts, update, id) ==
  [target EXCEPT
     !.concepts = concepts,
     !.connections =
        IF "conceptConnections" \in DOMAIN update
        THEN MergedConnections(concepts, @, update.conceptConnections,
                               id + Len(concepts) - Len(target.concepts)
                                 - Len(@) - 1)
        ELSE @,
     !.confidence = ConfidenceAfter[@]]

MergedTarget(target, update, id) ==
  CHOOSE merged \in
    {WithConnections(target, concepts, update, id) :
       concepts \in {MergedConcepts(target.concepts, update.emergingConcepts,
                                    id - Len(target.concepts) - 1)}} : TRUE

\* The block on update.emergingConcepts: the target is the first model,
\* changed where it is, or a model made for the purpose.
MergedMentalModels(current, update, id) ==
  IF ~HasEmergingConcepts(update) THEN current.mentalModels
  ELSE IF current.mentalModels = <<>>
       THEN <<MergedTarget(NewModel(id, "Emerging Understanding"), update, id + 1)>>
       ELSE [current.mentalModels EXCEPT ![1] = MergedTarget(@, update, id)]

\* The identifiers of the models, their concepts and their connections.
ModelIds(model) ==
  {model.id}
    \cup {model.concepts[i].id : i \in 1..Len(model.concepts)}
    \cup {model.connections[i].id : i \in 1..Len(model.connections)}
IdsOf(models) == UNION {ModelIds(models[m]) : m \in 1..Len(models)}

\* id is the identifier the next generateId() returns.
MergeProfileUpdate(current, update, id) ==
  [thinkingStyles |-> MergedStyles(current, update),
   patterns |-> MergedPatterns(current, update),
   mentalModels |-> MergedMentalModels(current, update, id),
   preferences |-> MergedPreferences(current, update)]

\* The object passed as `current`, after the call. merged is a spread of
\* current: it holds current's thinkingStyles, patterns and mentalModels
\* objects, and the blends are assigned into them; the first model is merged
\* into in place. Only a model created by the call (merged.mentalModels is
\* assigned a new array) and the preferences (copied first) stay out of it.
CurrentAfterMerge(current, update, id) ==
  [current EXCEPT
     !.thinkingStyles = MergedStyles(current, update),
     !.patterns = MergedPatterns(current, update),
     !.mentalModels =
        IF @ = <<>> THEN @ ELSE MergedMentalModels(current, update, id)]

\* ---- the inputs
Observed == Decimal(8, 10)
ObservedLow == Decimal(1, 10)
AboveOne == Decimal(3, 2)

\* The styles the user sets by hand, and the values set.
SliderStyles == {"visual", "verbal"}
SliderValues == {Observed, AboveOne}

\* The response that observes of every axis the value the profile has.
ZeroDelta(current) ==
  [thinkingStyles |-> [k \in ThinkingStyles |-> Number(current.thinkingStyles[k])],
   patterns |-> [k \in PromptPatterns |-> Number(current.patterns[k])]]

\* The parsed responses: no section, one section, a key the profile does
\* not have, a pattern that is not a number, every axis.
ParsedUpdates(current) ==
  {ZeroDelta(current),
   <<>>,
   [thinkingStyles |-> [k \in {"visual"} |-> Number(Observed)]],
   [patterns |-> [k \in {"questionFrequency", "decisionSpeed"} |->
                    IF k = "decisionSpeed" THEN String("fast")
                    ELSE Number(Observed)]],
   [thinkingStyles |-> [k \in {"verbal", "creative"} |-> Number(ObservedLow)],
    patterns |-> [k \in {"explorationDepth"} |-> Number(One)],
    preferences |-> [briefVsDetailed |-> Number(Observed),
                     structuredVsFreeform |-> String("freeform"),
                     challengeVsSupport |-> Number(One),
                     pacePreference |-> String("fast")]],
   [thinkingStyles |-> [k \in ThinkingStyles |-> Number(Observed)],
    patterns |-> [k \in PromptPatterns |-> Number(Observed)]]}

\* The concepts a response may observe.
Emerging(label, importance) == [label |-> label, importance |-> importance]

\* The lists of emerging concepts: none, one concept, one label twice in
\* two spellings with the lower importance last, two labels.
EmergingLists ==
  {<<>>,
   <<Emerging(TextUpper, ObservedLow)>>,
   <<Emerging(TextLower, Observed)>>,
   <<Emerging(TextOther, ObservedLow)>>,
   <<Emerging(TextUpper, Observed), Emerging(TextLower, ObservedLow)>>,
   <<Emerging(TextLower, ObservedLow), Emerging(TextOther, Observed)>>}

\* The connections a response may observe, with and without a type and a
\* strength.
Connection(from, to) ==
  [from |-> from, to |-> to, type |-> String("supports"),
   strength |-> Number(Observed)]

\* The lists of connections: none, one connection, the same pair of
\* concepts in another spelling, a connection without type and strength,
\* one with an empty type and no strength to speak of, the same connection
\* twice.
ConnectionLists ==
  {<<>>,
   <<Connection(TextUpper, TextOther)>>,
   <<Connection(TextLower, TextOther)>>,
   <<[from |-> TextOther, to |-> TextUpper]>>,
   <<[from |-> TextLower, to |-> TextLower, type |-> String(""),
      strength |-> Number(DoubleZero)]>>,
   <<Connection(TextOther, TextLower), Connection(TextOther, TextUpper)>>}

\* The parsed responses that observe concepts, either list possibly absent.
ConceptUpdates ==
  {[emergingConcepts |-> emerging, conceptConnections |-> observed] :
     emerging \in EmergingLists, observed \in ConnectionLists}
    \cup {[emergingConcepts |-> emerging] : emerging \in EmergingLists}
    \cup {[conceptConnections |-> observed] : observed \in ConnectionLists}

ModelNames == {"Deployment"}

\* ---- the operations
\* The sections are given objects of the profile's own.
UnsharedAll(profile, defaults, sections) ==
  [s \in DOMAIN defaults \cup sections |->
     IF s \in DOMAIN defaults THEN defaults[s] ELSE profile[s]]
Unshared(profile, defaults, section) ==
  UnsharedAll(profile, defaults, {section})

CognitionRest ==
  <<analyzerVars, profileVars, clientHook, driftAlert, analyzeCalls,
    keywordVars, conversation, lastOp>>

\* analyzeAndUpdate, from the parsed response on.  mergeProfileUpdate
\* assigns into the section objects of the profile it is given: a section
\* shared with the defaults changes there as well.
\* The sections of the defaults the merge leaves behind: the preferences
\* are copied before they are written, and the list of models is replaced
\* when the target model is made.
LeftBehind(current, update) ==
  (IF "preferences" \in DOMAIN update THEN {"preferences"} ELSE {})
    \cup (IF HasEmergingConcepts(update) /\ current.mentalModels = <<>>
          THEN {"mentalModels"} ELSE {})

AnalyzeAndUpdate(parsed) ==
  /\ UNCHANGED CognitionRest
  /\ merges < MaxMerges
  /\ merges' = merges + 1
  /\ cognitiveProfile' = MergeProfileUpdate(cognitiveProfile, parsed, nextId)
  /\ mergeArgument' = <<CurrentAfterMerge(cognitiveProfile, parsed, nextId)>>
  /\ moduleDefaults' =
       UnsharedAll(cognitiveProfile, moduleDefaults,
                   LeftBehind(cognitiveProfile, parsed))
  /\ nextId' = nextId + Cardinality(IdsOf(cognitiveProfile'.mentalModels)
                                      \ IdsOf(cognitiveProfile.mentalModels))

\* Math.max(0, Math.min(1, value))
Clamped(value) == IF DoubleLess(One, value) THEN One ELSE value


UpdateThinkingStyle(style, value) ==
  /\ UNCHANGED <<CognitionRest, merges, nextId>>
  /\ mergeArgument' = <<>>
  /\ moduleDefaults' = Unshared(cognitiveProfile, moduleDefaults, "thinkingStyles")
  /\ cognitiveProfile' =
       [cognitiveProfile EXCEPT !.thinkingStyles[style] = Clamped(value)]

\* addMentalModel: the list of models is replaced by a longer one.
AddMentalModel(name) ==
  /\ UNCHANGED CognitionRest
  /\ mergeArgument' = <<>>
  /\ merges < MaxMerges
  /\ merges' = merges + 1
  /\ moduleDefaults' = Unshared(cognitiveProfile, moduleDefaults, "mentalModels")
  /\ cognitiveProfile' =
       [cognitiveProfile EXCEPT
          !.mentalModels = Append(@, NewModel(nextId, name))]
  /\ nextId' = nextId + 1

ResetProfile ==
  /\ UNCHANGED <<CognitionRest, merges, nextId>>
  /\ mergeArgument' = <<>>
  /\ cognitiveProfile' = CreateEmptyProfile(cognitiveProfile, moduleDefaults)
  /\ moduleDefaults' = AllShared


\* ---------------------------------------------------------------------
\* Part V. useConversationAnalysis: the momentum.
\*
\* updateMomentum reads of a message the length of its content, whether
\* the content holds a question mark, and its timestamp: a message is the
\* record of the three, the timestamp in ms since the first message.  The
\* lengths and the gaps between timestamps of the transcripts below are
\* multiples of 60, so that every average over two to six of them is a
\* whole number; timestamps never decrease, so that no value is negative.
\* ---------------------------------------------------------------------

\* a - b of two naturals in bits, a >= b: a plus the complement of b, the
\* carry out of the highest limb dropped.
SubLimbs(a, b) ==
  SubSeq(Propagate([k \in 1..Len(a) |->
                      a[k] + 2^LimbBits - 1 - LimbAt(b, k)], 1, <<>>),
         1, Len(a))

SubBits(a, b) ==
  ToBits(SubLimbs(ToLimbs(a, LimbBits), ToLimbs(b, LimbBits)), LimbBits)

\* x - y of JavaScript, for doubles with x >= y >= 0.
Minus(x, y) ==
  IF y = DoubleZero THEN x
  ELSE RoundToDouble(
         SubBits(Zeros(x.exponent - Lower(x, y)) \o Significand(x),
                 Zeros(y.exponent - Lower(x, y)) \o Significand(y)),
         Lower(x, y))

\* Math.min(1, n / d) for whole numbers: n / 0 is Infinity.
MinWithOne(n, d) == IF n >= d THEN One ELSE Decimal(n, d)

InitMomentum == [level |-> Half, trend |-> "stable", depth |-> DoubleZero]

NoConversation ==
  [momentum |-> InitMomentum, momentumUpdates |-> 0, messages |-> <<>>,
   goal |-> <<>>, analysed |-> <<>>, isLoading |-> FALSE, error |-> <<>>,
   awaiting |-> {}, sessions |-> <<>>, currentSession |-> <<>>]

ConversationAtRest == conversation = NoConversation

RECURSIVE Sum(_, _)
Sum(numbers, i) ==
  IF i > Len(numbers) THEN 0 ELSE numbers[i] + Sum(numbers, i + 1)

\* messages.slice(-6)
LastSix(transcript) ==
  SubSeq(transcript, Max(1, Len(transcript) - 5), Len(transcript))

\* The sum of the content lengths over the count.
AvgLength(recent) ==
  Sum([i \in 1..Len(recent) |-> recent[i].length], 1) \div Len(recent)

QuestionCount(recent) ==
  Cardinality({i \in 1..Len(recent) : recent[i].question})

TimeDiffs(recent) ==
  [i \in 1..(Len(recent) - 1) |-> recent[i + 1].timestamp - recent[i].timestamp]

AvgTimeDiff(recent) ==
  IF Len(recent) > 1
  THEN Sum(TimeDiffs(recent), 1) \div (Len(recent) - 1)
  ELSE 60000

PaceWeight == Decimal(3, 10)
LengthWeight == Decimal(4, 10)
QuestionWeight == Decimal(3, 10)

\* paceScore * 0.3 + lengthScore * 0.4 + questionScore * 0.3
NewLevel(recent) ==
  Plus(Plus(Times(MinWithOne(60000, AvgTimeDiff(recent)), PaceWeight),
            Times(MinWithOne(AvgLength(recent), 500), LengthWeight)),
       Times(Decimal(QuestionCount(recent), 6), QuestionWeight))

LevelWeight == Decimal(7, 10)
NewLevelWeight == Decimal(3, 10)
TrendMargin == Decimal(1, 10)

\* The level as a pass would leave it that added the new level's share to
\* the whole of the old one.
SmoothedLevelAdded(level, newLevel) ==
  Plus(level, Times(newLevel, NewLevelWeight))

\* prev.level * 0.7 + newLevel * 0.3
SmoothedLevel(level, newLevel) ==
  Plus(Times(level, LevelWeight), Times(newLevel, NewLevelWeight))

\* newLevel < prev.level - 0.1: the difference is below zero, and so below
\* newLevel, when the level is below 0.1.
BelowMargin(level, newLevel) ==
  /\ ~DoubleLess(level, TrendMargin)
  /\ DoubleLess(newLevel, Minus(level, TrendMargin))

Trend(level, newLevel) ==
  IF DoubleLess(Plus(level, TrendMargin), newLevel) THEN "rising"
  ELSE IF BelowMargin(level, newLevel) THEN "falling"
  ELSE "stable"

\* ---- the transcripts
Said(length, question, timestamp) ==
  [length |-> length, question |-> question, timestamp |-> timestamp]

\* count messages of one length, gap ms apart, every one a question or none.
Repeated(count, length, question, gap) ==
  [i \in 1..count |-> Said(length, question, (i - 1) * gap)]

\* Too short to count; slow and terse; fast, long and asking; a long
\* conversation at a moderate pace; a long one a day apart and empty;
\* mixed lengths, questions and gaps.
MomentumTranscripts ==
  {<<>>,
   Repeated(2, 600, TRUE, 0),
   Repeated(3, 60, FALSE, 120000),
   Repeated(6, 600, TRUE, 0),
   Repeated(25, 120, TRUE, 60000),
   Repeated(20, 0, FALSE, 86400000),
   <<Said(60, FALSE, 0), Said(900, TRUE, 30000), Said(240, FALSE, 30000),
     Said(0, TRUE, 150000)>>,
   Repeated(4, 300, FALSE, 600) \o
     <<Said(1200, TRUE, 2400), Said(60, TRUE, 62400), Said(240, FALSE, 122400)>>}

\* What updateMomentum works out of the messages alone, worked out once for
\* each transcript.
ScoresOf ==
  [transcript \in MomentumTranscripts |->
     IF Len(transcript) < 3 THEN <<>>
     ELSE [newLevel |-> NewLevel(LastSix(transcript)),
           depth |-> MinWithOne(Len(transcript), 20)]]

\* ---- the operations
MomentumRest ==
  <<analyzerVars, profileVars, clientHook, driftAlert, analyzeCalls,
    keywordVars, cognitiveProfile, moduleDefaults, merges, mergeArgument,
    nextId, lastOp>>

\* The momentum after updateMomentum on a transcript of count messages with
\* the given scores.
MomentumAfter(momentum, count, scores) ==
  IF count < 3 THEN momentum
  ELSE [level |-> SmoothedLevel(momentum.level, scores.newLevel),
        trend |-> Trend(momentum.level, scores.newLevel),
        depth |-> scores.depth]

\* The momentum after updateMomentum(transcript).
UpdatedMomentum(momentum, transcript) ==
  MomentumAfter(momentum, Len(transcript), ScoresOf[transcript])

UpdateMomentum(transcript) ==
  /\ UNCHANGED MomentumRest
  /\ conversation.momentumUpdates < MaxUpdates
  /\ conversation' =
       [conversation EXCEPT
          !.momentum = UpdatedMomentum(@, transcript),
          !.momentumUpdates = @ + 1]

\* resetAnalysis() of useConversationAnalysis, as far as the momentum goes.
ResetConversationAnalysis ==
  /\ UNCHANGED MomentumRest
  /\ conversation' = [conversation EXCEPT !.momentum = InitMomentum]

\* ---- the App's analysis effect on its own transcript
\* The transcripts of the App whose messages all say the same, a minute
\* apart: what updateMomentum reads of them.
EffectTranscripts ==
  {transcript \in AppTranscripts :
     transcript[1].content = transcript[Len(transcript)].content}

Spoken(transcript) ==
  [i \in 1..Len(transcript) |->
     Said(Len(transcript[i].content),
          Includes(transcript[i].content, <<"?">>),
          (i - 1) * 60000)]

EffectScoresOf ==
  [transcript \in EffectTranscripts |->
     [newLevel |-> NewLevel(LastSix(Spoken(transcript))),
      depth |-> MinWithOne(Len(transcript), 20)]]

\* What the effect depends on and the App can change here: messages, goal
\* and getPersonalizationHints, which is a new function whenever
\* profile.traits is a new list. Lists are compared by what they hold, so
\* that a new list equal to the old one runs no effect here.
EffectDependencies ==
  [messages |-> conversation.messages, goal |-> conversation.goal,
   traits |-> traits]

\* The effect runs after a render in which a dependency has changed:
\* updateMomentum(messages), analyzeMessage(lastMessage), the drift check and
\* its alert.
AnalysisEffect ==
  LET transcript == conversation.messages
      assistant == /\ Len(transcript) > 0
                   /\ transcript[Len(transcript)].role = "assistant"
  IN /\ conversation.analysed # <<EffectDependencies>>
     /\ assistant => conversation.momentumUpdates < MaxUpdates
     /\ DriftDecision(transcript, conversation.goal)
     /\ conversation' =
          [conversation EXCEPT
             !.analysed = <<EffectDependencies>>,
             !.momentum =
                IF assistant
                THEN MomentumAfter(@, Len(transcript), EffectScoresOf[transcript])
                ELSE @,
             !.momentumUpdates = IF assistant THEN @ + 1 ELSE @]

\* ---- useChat and the App's sessions
\* A message of the chat: of its content only whose send an assistant
\* message answers is kept (inReplyTo: the id of that send's user message).
UserMessage(id) == [id |-> id, role |-> "user", inReplyTo |-> <<>>]
AssistantMessage(id, userId) ==
  [id |-> id, role |-> "assistant", inReplyTo |-> <<userId>>]

NewSession(id) == [id |-> id, messages |-> <<>>]

\* What the completion service rejects a call with: an Error with a message,
\* or a value that is no Error.
Failures ==
  {[isError |-> TRUE, message |-> "API error"], [isError |-> FALSE]}

NoApiKeyError == "Please configure your API key in settings"

\* err instanceof Error ? err.message : 'Failed to send message'
ErrorText(failure) ==
  IF failure.isError THEN failure.message ELSE "Failed to send message"

\* The effect on [messages]: the transcript is saved into the current
\* session, and that into the session of its id in the list.
Synced(chat) ==
  IF chat.currentSession # <<>> /\ Len(chat.messages) > 0
  THEN LET updated == [chat.currentSession[1] EXCEPT !.messages = chat.messages]
       IN [chat EXCEPT
             !.currentSession = <<updated>>,
             !.sessions = [i \in 1..Len(@) |->
                             IF @[i].id = updated.id THEN updated ELSE @[i]]]
  ELSE chat

\* send, up to the await.
Sent(chat, id) ==
  [chat EXCEPT !.messages = Append(@, UserMessage(id)),
               !.isLoading = TRUE,
               !.error = <<>>,
               !.awaiting = @ \cup {id}]

\* send, after the await: the completion service has answered.
Replied(chat, userId, id) ==
  [chat EXCEPT !.messages = Append(@, AssistantMessage(id, userId)),
               !.isLoading = FALSE,
               !.awaiting = @ \ {userId}]

\* The catch block without the finally block.
FailedStillLoading(chat, userId, failure) ==
  [chat EXCEPT !.error = <<ErrorText(failure)>>,
               !.awaiting = @ \ {userId}]

\* send, after the await: the completion service has rejected the call.
Failed(chat, userId, failure) ==
  [chat EXCEPT !.error = <<ErrorText(failure)>>,
               !.isLoading = FALSE,
               !.awaiting = @ \ {userId}]

ChatRest ==
  <<analyzerVars, profileVars, keywordVars, cognitiveProfile, moduleDefaults,
    merges, mergeArgument>>

\* send(content)
Send ==
  /\ UNCHANGED <<ChatRest, clientHook, driftAlert, analyzeCalls>>
  /\ lastOp' = Op("send", <<>>)
  /\ IF ~settings.apiKey
     THEN /\ conversation' = [conversation EXCEPT !.error = <<NoApiKeyError>>]
          /\ UNCHANGED nextId
     ELSE /\ nextId <= MaxChatIds
          /\ conversation' = Synced(Sent(conversation, nextId))
          /\ nextId' = nextId + 1

\* The completion service answers the call of a send.
CompletionResolves(userId) ==
  /\ UNCHANGED <<ChatRest, clientHook, driftAlert, analyzeCalls>>
  /\ userId \in conversation.awaiting
  /\ nextId <= MaxChatIds
  /\ lastOp' = Op("resolve", <<userId>>)
  /\ conversation' = Synced(Replied(conversation, userId, nextId))
  /\ nextId' = nextId + 1

\* The completion service rejects the call of a send.
CompletionRejects(userId, failure) ==
  /\ UNCHANGED <<ChatRest, clientHook, driftAlert, analyzeCalls, nextId>>
  /\ userId \in conversation.awaiting
  /\ lastOp' = Op("reject", <<userId>>)
  /\ conversation' = Failed(conversation, userId, failure)

\* handleCreateSession, handleQuickStart: a new session is the current one.
HandleCreateSession ==
  /\ UNCHANGED ChatRest
  /\ nextId <= MaxChatIds
  /\ lastOp' = Op("create", <<>>)
  /\ nextId' = nextId + 1
  /\ clientHook' = InitClientHook
  /\ analyzeCalls' = NoCalls
  /\ driftAlert' = FALSE
  /\ conversation' =
       [conversation EXCEPT
          !.currentSession = <<NewSession(nextId)>>,
          !.messages = <<>>,
          !.momentum = InitMomentum,
          !.sessions = Append(@, NewSession(nextId))]

\* handleSelectSession(session)
HandleSelectSession(session) ==
  /\ UNCHANGED <<ChatRest, nextId>>
  /\ lastOp' = Op("select", <<session.id>>)
  /\ clientHook' = InitClientHook
  /\ analyzeCalls' = NoCalls
  /\ driftAlert' = FALSE
  /\ conversation' =
       Synced([conversation EXCEPT
                 !.currentSession = <<session>>,
                 !.messages = session.messages,
                 !.momentum = InitMomentum])

\* handleDeleteSession(id)
HandleDeleteSession(id) ==
  /\ UNCHANGED <<ChatRest, nextId, clientHook, driftAlert, analyzeCalls>>
  /\ lastOp' = Op("delete", <<id>>)
  /\ conversation' =
       LET deleted == [conversation EXCEPT
                         !.sessions = SelectSeq(@, LAMBDA s : s.id # id)]
       IN IF conversation.currentSession # <<>>
             /\ conversation.currentSession[1].id = id
          THEN [deleted EXCEPT !.currentSession = <<>>, !.messages = <<>>]
          ELSE deleted

\* ------------------------------------------------ the inferrer's machine
\* The analyzer hooks are not part of this machine: they stay as constructed.
AnalyzersAtRest ==
  /\ messages = <<>>
  /\ settings = [apiKey |-> FALSE, driftCheckFrequency |-> 2, analysisInterval |-> 2]
  /\ goal = FALSE
  /\ mounted = "drift"
  /\ driftHook = InitDriftHook
  /\ insightHook = InitInsightHook
  /\ actionHook = InitActionHook
  /\ unifiedHook = InitUnifiedHook(settings)
  /\ requests = 0
  /\ svcLog = <<>>
  /\ uncaught = FALSE

InitP ==
  /\ AnalyzersAtRest
  /\ ClientAtRest
  /\ CognitionAtRest
  /\ ConversationAtRest
  /\ InitProfile
  /\ nextId = 1
  /\ lastOp = Op("init", <<>>)

NextP ==
  \/ \E metric \in NumberMetrics \cup {"clipsByCategory"}, value \in TrackValues :
       TrackMetric(metric, value)
  \/ \E categoryId \in Categories : TrackClipByCategory(categoryId)
  \/ AnalyzePatterns
  \/ GenerateObservations
  \/ \E observationId \in 0..(nextId - 1), response \in Responses :
       RespondToObservation(observationId, response)
  \/ Tick

SpecProfile == InitP /\ [][NextP]_vars

\* The inferrer's machine with a user who answers every observation: each
\* response is a confirm or a deny, so that a dismissed observation is one
\* the user confirmed or denied.
Answers == {"confirm", "deny"}

NextAnswers ==
  \/ \E metric \in NumberMetrics \cup {"clipsByCategory"}, value \in TrackValues :
       TrackMetric(metric, value)
  \/ \E categoryId \in Categories : TrackClipByCategory(categoryId)
  \/ AnalyzePatterns
  \/ GenerateObservations
  \/ \E observationId \in 0..(nextId - 1), response \in Answers :
       RespondToObservation(observationId, response)
  \/ Tick

SpecAnswers == InitP /\ [][NextAnswers]_vars

\* --------------------------------------------------- the client's machine
InitC ==
  /\ AnalyzersAtRest
  /\ ClientAtRest
  /\ CognitionAtRest
  /\ ConversationAtRest
  /\ ProfileAtRest
  /\ nextId = 1
  /\ lastOp = Op("init", <<>>)

NextC ==
  \/ \E message \in ClientMessages : AnalyzeMessage(message)
  \/ \E id \in 1..MaxItemIds : ToggleActionItem(id)
  \/ \E id \in 1..MaxItemIds : DismissActionItem(id)
  \/ \E priority \in Priorities : AddActionItem(ManualText, priority)
  \/ ClientReset

SpecClient == InitC /\ [][NextC]_vars

\* ----------------------------------------------------- the App's machine
\* Counters from which analyzePatterns infers no exploration trait, a high
\* one, a low one and one in between.
AppMetrics ==
  {DefaultMetrics,
   [DefaultMetrics EXCEPT !.tangentCount = 10],
   [DefaultMetrics EXCEPT !.selfCorrectionCount = 10],
   [DefaultMetrics EXCEPT !.tangentCount = 5, !.selfCorrectionCount = 5]}

\* A saved profile whose traits analyzePatterns has inferred.
InitApp ==
  /\ AnalyzersAtRest
  /\ ClientAtRest
  /\ CognitionAtRest
  /\ ConversationAtRest
  /\ metrics \in AppMetrics
  /\ traits = NewTraits(<<>>, metrics)
  /\ observations = <<>>
  /\ now = 0
  /\ tracks = 0
  /\ nextId = 1
  /\ lastOp = Op("init", <<>>)

NextApp ==
  \/ \E transcript \in AppTranscripts, text \in Goals :
       DriftEffect(transcript, text)
  \/ DismissDriftAlert
  \/ ClientReset

SpecApp == InitApp /\ [][NextApp]_vars

\* ------------------------------------------- the drift check's functions
InitK ==
  /\ AnalyzersAtRest
  /\ ProfileAtRest
  /\ clientHook = InitClientHook
  /\ driftAlert = FALSE
  /\ analyzeCalls = NoCalls
  /\ CognitionAtRest
  /\ ConversationAtRest
  /\ driftMessages \in Transcripts
  /\ goalString \in Goals
  /\ goalKeywords = <<>>
  /\ driftCheck = <<>>
  /\ nextId = 1
  /\ lastOp = Op("init", <<>>)

NextK ==
  \/ ApplyExtractGoalKeywords
  \/ ApplyCheckDriftClientSide

SpecKeywords == InitK /\ [][NextK]_vars

\* ------------------------------------------ the cognitive profile's machine
InitCognition ==
  /\ AnalyzersAtRest
  /\ ClientAtRest
  /\ ProfileAtRest
  /\ CognitionAtRest \/ CognitionLoaded
  /\ ConversationAtRest
  /\ nextId = 1
  /\ lastOp = Op("init", <<>>)

NextCognition ==
  \/ \E parsed \in ParsedUpdates(cognitiveProfile) : AnalyzeAndUpdate(parsed)
  \/ \E style \in SliderStyles, value \in SliderValues :
       UpdateThinkingStyle(style, value)
  \/ ResetProfile

SpecCognition == InitCognition /\ [][NextCognition]_vars

\* ---------------------------------------------- the mental models' machine
NextModels ==
  \/ \E parsed \in ConceptUpdates : AnalyzeAndUpdate(parsed)
  \/ \E name \in ModelNames : AddMentalModel(name)
  \/ ResetProfile

SpecModels == InitCognition /\ [][NextModels]_vars

\* --------------------------------------------------- the momentum's machine
InitMomentumMachine ==
  /\ AnalyzersAtRest
  /\ ClientAtRest
  /\ ProfileAtRest
  /\ CognitionAtRest
  /\ ConversationAtRest
  /\ nextId = 1
  /\ lastOp = Op("init", <<>>)

NextMomentum ==
  \/ \E transcript \in MomentumTranscripts : UpdateMomentum(transcript)
  \/ ResetConversationAnalysis

SpecMomentum == InitMomentumMachine /\ [][NextMomentum]_vars

\* ------------------------------------------- the App's effect's machine
\* The App with a saved profile, its traits inferred and its observations
\* made, right after its transcript was set: the analysis effect is due. The
\* transcripts are shorter than ten messages, so the periodic effect
\* (messages.length % 10 === 0) does nothing.
EffectMetrics ==
  AppMetrics
    \cup {[DefaultMetrics EXCEPT !.tangentCount = 12],
          [DefaultMetrics EXCEPT !.selfCorrectionCount = 12],
          [DefaultMetrics EXCEPT !.tangentCount = 6, !.selfCorrectionCount = 6]}

InitEffects ==
  /\ AnalyzersAtRest
  /\ ClientAtRest
  /\ CognitionAtRest
  /\ metrics \in EffectMetrics
  /\ traits = NewTraits(<<>>, metrics)
  /\ now = 0
  /\ tracks = 0
  /\ observations = NewObservations(traits, metrics, <<>>, 1)
  /\ nextId = Len(observations) + 1
  /\ \E transcript \in EffectTranscripts, text \in Goals :
       conversation = [NoConversation EXCEPT !.messages = transcript,
                                            !.goal = text]
  /\ lastOp = Op("init", <<>>)

NextEffects ==
  \/ AnalysisEffect
  \/ \E observationId \in 1..(nextId - 1), response \in Responses :
       RespondToObservation(observationId, response)
  \/ DismissDriftAlert

SpecEffects == InitEffects /\ [][NextEffects]_vars

\* --------------------------------------------------- the chat's machine
\* The App after its mount: two sessions were saved, none is the current one
\* yet; the API key is configured or not.
SavedSessions == <<NewSession(1), NewSession(2)>>

InitChat ==
  /\ messages = <<>>
  /\ settings \in {[apiKey |-> key, driftCheckFrequency |-> 2,
                     analysisInterval |-> 2] : key \in BOOLEAN}
  /\ goal = FALSE
  /\ mounted = "drift"
  /\ driftHook = InitDriftHook
  /\ insightHook = InitInsightHook
  /\ actionHook = InitActionHook
  /\ unifiedHook = InitUnifiedHook(settings)
  /\ requests = 0
  /\ svcLog = <<>>
  /\ uncaught = FALSE
  /\ ClientAtRest
  /\ ProfileAtRest
  /\ CognitionAtRest
  /\ conversation = [NoConversation EXCEPT !.sessions = SavedSessions]
  /\ nextId = Len(SavedSessions) + 1
  /\ lastOp = Op("init", <<>>)

NextChat ==
  \/ Send
  \/ \E userId \in conversation.awaiting : CompletionResolves(userId)
  \/ \E userId \in conversation.awaiting, failure \in Failures :
       CompletionRejects(userId, failure)
  \/ HandleCreateSession
  \/ \E i \in 1..Len(conversation.sessions) :
       HandleSelectSession(conversation.sessions[i])
  \/ \E i \in 1..Len(conversation.sessions) :
       HandleDeleteSession(conversation.sessions[i].id)

SpecChat == InitChat /\ [][NextChat]_vars

\* ------------------------------------------------ the analyzers' machine
InitA ==
  /\ InitAnalyzers
  /\ ClientAtRest
  /\ CognitionAtRest
  /\ ConversationAtRest
  /\ ProfileAtRest
  /\ nextId = 1
  /\ lastOp = Op("init", <<>>)

NextA ==
  \/ \E role \in {"user", "assistant"} : AppendMessage(role)
  \/ CheckDrift
  \/ \E response \in DriftResponses : CheckDriftResolved(response)
  \/ CheckDriftRejected
  \/ ResetCounter
  \/ AnalyzeForInsights
  \/ \E response \in InsightResponses : AnalyzeForInsightsResolved(response)
  \/ AnalyzeForInsightsRejected
  \/ InsightResetAnalysis
  \/ DetectActionItems
  \/ \E response \in ActionResponses : DetectActionItemsResolved(response)
  \/ DetectActionItemsRejected
  \/ Analyze
  \/ \E response \in UnifiedResponses : AnalyzeResolved(response)
  \/ AnalyzeRejected
  \/ ResetAnalysis
  \/ \E interval \in {1, 2} : SetAnalysisInterval(interval)

SpecAnalyzers == InitA /\ [][NextA]_vars

\* =========================================================================
\* Claims about the analyzers (checked under SpecAnalyzers)
\* =========================================================================

\* C1: for each analyzer, a call that arrives while an earlier call of the
\* same analyzer still awaits the completion service issues no request: at
\* most one request per analyzer is outstanding at any time.
C1_AtMostOneOutstanding ==
  /\ driftHook.pending <= 1
  /\ insightHook.pending <= 1
  /\ actionHook.pending <= 1
  /\ unifiedHook.pending <= 1

\* C2: for every analyzer, when no invocation is outstanding its in-flight /
\* isAnalyzing / isDetecting flag is false, however the last one finished.
C2_FlagClearedWhenIdle ==
  /\ driftHook.pending = 0 => ~driftHook.isCheckingRef
  /\ insightHook.pending = 0 => ~insightHook.isAnalyzing
  /\ actionHook.pending = 0 => ~actionHook.isDetecting
  /\ unifiedHook.pending = 0 => ~unifiedHook.isAnalyzing

\* The interval each analyzer is configured with; the action-item analyzer
\* has none, so the least advance (one user message) stands in for it.
C3_Interval ==
  CASE mounted = "drift" -> settings.driftCheckFrequency
    [] mounted = "insight" -> InsightInterval
    [] mounted = "unified" -> unifiedHook.analysisIntervalRef
    [] OTHER -> 1

\* C3: with no reset in between, the user-message count has advanced by at
\* least the analyzer's interval between two consecutive service calls of
\* the same analyzer.
C3_IntervalBetweenInvocations ==
  Len(svcLog) >= 2 =>
    svcLog[Len(svcLog)] - svcLog[Len(svcLog) - 1] >= C3_Interval

\* "No parseable JSON object": there is no "{" followed by a "}", or the text
\* from the first "{" to the last "}" is not one JSON object.
C4_NoParseableJson(response) ==
  LET n == Len(response)
      IsFirstOpen(i) == response[i] = LB /\ \A k \in 1..(i - 1) : response[k] # LB
      IsLastClose(j) == response[j] = RB /\ \A k \in (j + 1)..n : response[k] # RB
  IN ~ \E i, j \in 1..n :
         /\ IsFirstOpen(i) /\ IsLastClose(j) /\ i < j
         /\ \/ j = i + 1
            \/ j = i + 2 /\ response[i + 1].t = "members"

C4_ResolvedOps ==
  {"checkDriftResolved", "analyzeForInsightsResolved",
   "detectActionItemsResolved", "analyzeResolved"}

\* C4: for every analyzer, a response with no parseable JSON object yields no
\* signal and nothing is thrown to the caller: the drift callback is not
\* invoked, no insight is set or added to the history, the action-item list
\* and the unified result are unchanged.
C4_NoSignalOnUnparseable ==
  [][(lastOp'.op \in C4_ResolvedOps /\ C4_NoParseableJson(lastOp'.arg[1])) =>
       /\ driftHook'.detected = driftHook.detected
       /\ insightHook'.currentInsight = insightHook.currentInsight
       /\ insightHook'.insightsHistory = insightHook.insightsHistory
       /\ actionHook'.items = actionHook.items
       /\ unifiedHook'.lastAnalysis = unifiedHook.lastAnalysis
       /\ ~uncaught']_vars

\* C4 witness: the insight analyzer received two JSON objects in one answer
\* (the greedy region spans both and does not parse) and surfaced nothing.
C4_Witness ==
  /\ lastOp.op = "analyzeForInsightsResolved"
  /\ lastOp.arg[1] = TwoObjects(InsightJson(TRUE, 90))
  /\ insightHook.currentInsight = <<>>
  /\ insightHook.pending = 0

\* ------------------------------------------------------------------ C5
\* C5: at any time at most one undismissed observation is younger than the
\* 30-minute cooldown (a pass in which several conditions qualify adds at most
\* one observation, and a pass during the cooldown adds none).
C5_Fresh ==
  {i \in 1..Len(observations) :
     ~observations[i].dismissed /\ Age(observations[i]) < OBSERVATION_COOLDOWN_MS}

C5_AtMostOneFreshObservation == Cardinality(C5_Fresh) <= 1

\* ------------------------------------------------------------------ C6
\* C6: every reachable profile has at most one undismissed observation per
\* traitId, and a generateObservations pass never creates an observation for a
\* trait whose confirmedByUser is non-null.
C6_OnePendingPerTrait ==
  \A i, j \in 1..Len(observations) :
    (/\ observations[i].traitId = observations[j].traitId
     /\ ~observations[i].dismissed
     /\ ~observations[j].dismissed) => i = j

C6_CreatedOnlyForUnasked ==
  \A j \in (Len(observations) + 1)..Len(observations') :
    \A k \in 1..Len(traits) :
      traits[k].id = observations'[j].traitId => traits[k].confirmedByUser = <<>>

C6_ObservationsPerTrait ==
  /\ []C6_OnePendingPerTrait
  /\ [][(vars' # vars /\ GenerateObservations) => C6_CreatedOnlyForUnasked]_vars

\* A later pass ran while the decision-style observation was still pending and
\* its trait still qualified: it added another observation, not a second one
\* for the trait.
C6_Witness ==
  \E i, j \in 1..Len(observations) :
    /\ observations[i].traitId = "decisionStyle"
    /\ ~observations[i].dismissed
    /\ observations[j].createdAt > observations[i].createdAt
    /\ FindTrait(traits, "decisionStyle") # <<>>
    /\ Less(FindTrait(traits, "decisionStyle")[1].value, Frac(3, 10))
    /\ Greater(FindTrait(traits, "decisionStyle")[1].confidence, Frac(1, 2))

\* ------------------------------------------------------------------ C7
\* C7: respondToObservation(id, r) on an existing observation marks exactly that
\* observation dismissed; confirm writes confirmedByUser = true and deny writes
\* false on the trait named by the observation and on no other; dismiss leaves
\* every trait unchanged; an unknown id leaves the profile unchanged; metrics
\* never change.
C7_Effect(observationId, response) ==
  LET known == \E i \in 1..Len(observations) : observations[i].id = observationId
      target == CHOOSE i \in 1..Len(observations) : observations[i].id = observationId
  IN /\ metrics' = metrics
     /\ ~known => (observations' = observations /\ traits' = traits)
     /\ known =>
          /\ Len(observations') = Len(observations)
          /\ \A i \in 1..Len(observations) :
               observations'[i] =
                 IF i = target THEN [observations[i] EXCEPT !.dismissed = TRUE]
                 ELSE observations[i]
          /\ Len(traits') = Len(traits)
          /\ \A k \in 1..Len(traits) :
               IF response # "dismiss" /\ traits[k].id = observations[target].traitId
               THEN traits'[k] =
                      [traits[k] EXCEPT !.confirmedByUser = <<response = "confirm">>]
               ELSE traits'[k] = traits[k]

C7_RespondFrame ==
  [][vars' # vars =>
       \A observationId \in 0..(nextId - 1), response \in Responses :
         RespondToObservation(observationId, response)
           => C7_Effect(observationId, response)]_vars

\* A denial was recorded on one trait while another trait stayed unanswered.
C7_Witness ==
  /\ \E i \in 1..Len(observations) : observations[i].dismissed
  /\ \E k, l \in 1..Len(traits) :
       /\ traits[k].confirmedByUser = <<FALSE>>
       /\ traits[l].confirmedByUser = <<>>

\* ------------------------------------------------------------------ C8
\* C8: for two profiles that differ only in the computed value of a denied
\* trait, getTraitValue is 0.5 for that trait (confidence at least 0.3), the
\* personalization hints are identical, and so is the drift-alert decision.
C8_Values == {Frac(0, 1), Frac(1, 4), Frac(1, 2), Frac(3, 4), Frac(1, 1)}
C8_Ratios == {Frac(0, 1), Frac(1, 10), Frac(1, 4), Frac(1, 2), Frac(1, 1)}

C8_DeniedTraitsNeutral ==
  \A i \in 1..Len(traits) :
    traits[i].confirmedByUser = <<FALSE>> =>
      \A v \in C8_Values :
        LET other == [traits EXCEPT ![i].value = v]
            hints == GetPersonalizationHints(traits)
            otherHints == GetPersonalizationHints(other)
        IN /\ ~Less(traits[i].confidence, Frac(3, 10)) =>
                /\ GetTraitValue(traits, traits[i].id) = <<Frac(1, 2)>>
                /\ GetTraitValue(other, traits[i].id) = <<Frac(1, 2)>>
           /\ otherHints = hints
           /\ \A isDrifting \in BOOLEAN, matchRatio \in C8_Ratios :
                ShouldAlert(otherHints, isDrifting, matchRatio)
                  = ShouldAlert(hints, isDrifting, matchRatio)

\* A denied trait of sufficient confidence whose computed value is far from
\* neutral, and which has a hint of its own.
C8_Witness ==
  \E i \in 1..Len(traits) :
    /\ traits[i].confirmedByUser = <<FALSE>>
    /\ traits[i].id \in {"explorationTendency", "decisionStyle", "insightReceptivity"}
    /\ ~Less(traits[i].confidence, Frac(3, 10))
    /\ Less(traits[i].value, Frac(3, 10))

\* ------------------------------------------------------------------ C9
\* C9: a trait whose confirmedByUser is true or false keeps that value through
\* every trackMetric, trackClipByCategory and analyzePatterns step.
C9_InferenceStep ==
  \/ AnalyzePatterns
  \/ \E metric \in NumberMetrics \cup {"clipsByCategory"}, value \in TrackValues :
       TrackMetric(metric, value)
  \/ \E categoryId \in Categories : TrackClipByCategory(categoryId)

C9_ConfirmationSurvives ==
  [][(vars' # vars /\ C9_InferenceStep) =>
       \A i \in 1..Len(traits) :
         traits[i].confirmedByUser # <<>> =>
           \E j \in 1..Len(traits') :
             /\ traits'[j].id = traits[i].id
             /\ traits'[j].confirmedByUser = traits[i].confirmedByUser]_vars

\* An answered decision-style trait whose value was recomputed from later
\* evidence: it no longer meets the threshold under which it was asked about.
C9_Witness ==
  \E i \in 1..Len(traits) :
    /\ traits[i].id = "decisionStyle"
    /\ traits[i].confirmedByUser # <<>>
    /\ ~Less(traits[i].value, Frac(3, 10))

\* ------------------------------------------------------------------ C10
\* The samples behind a trait, with the clip pair the statement names for
\* captureStyle, and with the counter analyzePatterns compares for it.
C10_PairSum(id) ==
  CASE id = "explorationTendency" -> metrics.tangentCount + metrics.selfCorrectionCount
    [] id = "decisionStyle" ->
         metrics.questionBeforeActionCount + metrics.quickDecisionCount
    [] id = "insightReceptivity" -> metrics.insightsAccepted + metrics.insightsDismissed
    [] id = "captureStyle" ->
         metrics.clipsByCategory["actions"] + metrics.clipsByCategory["ideas"]

\* C10 as stated: every trait in the trait list has a backing counter pair
\* summing to at least 5, the 'actions' + 'ideas' clip counts for captureStyle.
C10_EveryPairAtLeastFive ==
  \A i \in 1..Len(traits) : C10_PairSum(traits[i].id) >= 5

\* C10 amended: every trait in the trait list has at least 5 backing samples,
\* which for captureStyle is clipsTotal (its 'actions' + 'ideas' counts may sum
\* to less, even to 0).
C10_EveryTraitBacked ==
  \A i \in 1..Len(traits) :
    IF traits[i].id = "captureStyle" THEN metrics.clipsTotal >= 5
    ELSE C10_PairSum(traits[i].id) >= 5

\* A captureStyle trait inferred from clips none of which is an action or idea.
C10_Witness ==
  \E i \in 1..Len(traits) :
    /\ traits[i].id = "captureStyle"
    /\ C10_PairSum("captureStyle") = 0
    /\ traits[i].value = Frac(1, 2)

\* ------------------------------------------------------------------ C11
\* C11: every trait's confidence lies within [0, 1], and no step lowers the
\* confidence of a trait: counters only grow, and evidence that contradicts a
\* trait still adds to its sample count.
C11_ConfidenceInRange ==
  \A i \in 1..Len(traits) :
    /\ traits[i].confidence[2] > 0
    /\ 0 <= traits[i].confidence[1]
    /\ traits[i].confidence[1] <= traits[i].confidence[2]

C11_ConfidenceKept ==
  \A i \in 1..Len(traits) :
    \E j \in 1..Len(traits') :
      /\ traits'[j].id = traits[i].id
      /\ ~Less(traits'[j].confidence, traits[i].confidence)

C11_ConfidenceMonotone ==
  /\ []C11_ConfidenceInRange
  /\ [][vars' # vars => C11_ConfidenceKept]_vars

\* The cap applied: more than ten insight events, some of them contradicting
\* the others, and a confidence of exactly 1.
C11_Witness ==
  \E i \in 1..Len(traits) :
    /\ traits[i].id = "insightReceptivity"
    /\ traits[i].confidence = <<1, 1>>
    /\ metrics.insightsAccepted + metrics.insightsDismissed > 10
    /\ metrics.insightsDismissed > 0

\* C12: between two resets, a call of analyzeMessage with a message whose id
\* an earlier call has been given leaves the action-item list and the set of
\* highlighted messages as they are, whatever toggleActionItem,
\* dismissActionItem and addActionItem did in between.
C12_Idempotent ==
  \A message \in ClientMessages :
    analyzeCalls[message.id] > 0 /\ AnalyzeMessage(message) =>
      /\ clientHook'.actionItems = clientHook.actionItems
      /\ clientHook'.highlightedMessages = clientHook.highlightedMessages

C12_AnalyzeMessageIdempotent == [][C12_Idempotent]_vars

\* One message id was analyzed twice and no other; the two items extracted
\* from it were dismissed, and the list holds one manual item, completed.
C12_Witness ==
  \E id \in MessageIds :
    /\ analyzeCalls[id] = 2
    /\ \A other \in MessageIds \ {id} : analyzeCalls[other] = 0
    /\ nextId = 4
    /\ Len(clientHook.actionItems) = 1
    /\ clientHook.actionItems[1].messageId = 0
    /\ clientHook.actionItems[1].completed


\* C13: the texts of the running action-item list are pairwise different,
\* ignoring case: a call of analyzeMessage on a list with that property
\* yields a list with that property, also when the message yields one text
\* twice.
C13_TextsDistinct(items) ==
  \A i, j \in 1..Len(items) :
    i # j => ToLowerCase(items[i].text) # ToLowerCase(items[j].text)

C13_AnalysisKeepsTextsDistinct ==
  [][(/\ \E message \in ClientMessages : AnalyzeMessage(message)
      /\ C13_TextsDistinct(clientHook.actionItems))
     => C13_TextsDistinct(clientHook'.actionItems)]_vars

\* C14: from the assistant message "I need to refactor the auth module.
\* Let's also consider adding tests." extractActionItems yields three items,
\* in this order: (high, "Refactor the auth module"), (medium, "Also
\* consider adding tests") and (low, "Adding tests"), the last one captured
\* by the pattern that starts at "consider".
C14_RefactorText ==
  <<"R", "e", "f", "a", "c", "t", "o", "r", " ", "t", "h", "e", " ", "a",
  "u", "t", "h", " ", "m", "o", "d", "u", "l", "e">>

C14_AlsoConsiderText ==
  <<"A", "l", "s", "o", " ", "c", "o", "n", "s", "i", "d", "e", "r", " ",
  "a", "d", "d", "i", "n", "g", " ", "t", "e", "s", "t", "s">>

C14_AddingTestsText ==
  <<"A", "d", "d", "i", "n", "g", " ", "t", "e", "s", "t", "s">>

\* analyzeMessage is handed the example, by the assistant, for the first
\* time and with an empty list: the list then holds what was extracted.
C14_ExampleAnalyzed(message) ==
  /\ message.role = "assistant"
  /\ message.content = ExampleContent
  /\ message.id \notin clientHook.processedMessagesRef
  /\ clientHook.actionItems = <<>>
  /\ AnalyzeMessage(message)

C14_Yield(items) == [i \in 1..Len(items) |-> <<items[i].priority, items[i].text>>]

C14_ExampleYieldsThree ==
  [][\A message \in ClientMessages :
       C14_ExampleAnalyzed(message) =>
         C14_Yield(clientHook'.actionItems) =
           <<<<"high", C14_RefactorText>>, <<"medium", C14_AlsoConsiderText>>,
             <<"low", C14_AddingTestsText>>>>]_vars

\* The statement with two items and no others.
C14_ExampleYieldsTwo ==
  [][\A message \in ClientMessages :
       C14_ExampleAnalyzed(message) =>
         C14_Yield(clientHook'.actionItems) =
           <<<<"high", C14_RefactorText>>, <<"medium", C14_AlsoConsiderText>>>>]_vars

\* The example was analyzed and nothing else happened.
C14_Witness ==
  /\ nextId = 4
  /\ Len(clientHook.actionItems) = 3
  /\ \A i \in 1..3 : clientHook.actionItems[i].id = i
  /\ clientHook.actionItems[1].text = C14_RefactorText
  /\ clientHook.actionItems[3].text = C14_AddingTestsText
  /\ \E id \in MessageIds :
       \A i \in 1..3 : clientHook.actionItems[i].messageId = id

\* C15: every action item accepted from a response of the completion
\* service, inserted by detectActionItems or returned in the actions of the
\* unified result, has a text of at least 5 and fewer than 200 characters.
C15_WithinLength(items) ==
  \A i \in 1..Len(items) :
    Len(items[i].text) >= MinTextLength /\ Len(items[i].text) < MaxTextLength

C15_AcceptedTextsWithinLength ==
  /\ C15_WithinLength(actionHook.items)
  /\ unifiedHook.lastAnalysis # <<>> =>
       C15_WithinLength(unifiedHook.lastAnalysis[1].actions)

\* C16: the single analyzer surfaces an insight (sets currentInsight and
\* puts it at the head of the history) iff the response parses to hasInsight
\* with a confidence above 0.6, that is 0.61 or more in hundredths, and
\* otherwise leaves currentInsight and the history alone; the unified
\* analyzer returns an insight iff the response parses to found with a
\* confidence above 0.7, that is 0.71 or more.
C16_SingleAccepts(parsed) ==
  /\ parsed # <<>>
  /\ parsed[1].kind = "insight"
  /\ parsed[1].hasInsight
  /\ parsed[1].confidence >= 61

C16_UnifiedAccepts(parsed) ==
  /\ parsed[1].kind = "unified"
  /\ parsed[1].found
  /\ parsed[1].confidence >= 71

C16_SingleStep ==
  lastOp'.op = "analyzeForInsightsResolved" =>
    LET parsed == ParseInsightResponse(lastOp'.arg[1])
    IN IF C16_SingleAccepts(parsed)
       THEN /\ insightHook'.currentInsight # <<>>
            /\ insightHook'.currentInsight # insightHook.currentInsight
            /\ insightHook'.currentInsight[1].confidence = parsed[1].confidence
            /\ insightHook'.insightsHistory =
                 Take(insightHook'.currentInsight \o insightHook.insightsHistory,
                      HistoryCap)
       ELSE /\ insightHook'.currentInsight = insightHook.currentInsight
            /\ insightHook'.insightsHistory = insightHook.insightsHistory

C16_UnifiedStep ==
  (lastOp'.op = "analyzeResolved" /\ ParseResponse(lastOp'.arg[1]) # <<>>) =>
    LET parsed == ParseResponse(lastOp'.arg[1])
        insight == unifiedHook'.lastAnalysis[1].insight
    IN IF C16_UnifiedAccepts(parsed)
       THEN insight # <<>> /\ insight[1].confidence = parsed[1].confidence
       ELSE insight = <<>>

C16_StrictThresholds == [][C16_SingleStep /\ C16_UnifiedStep]_vars

\* An insight of confidence 0.7 was surfaced by the single analyzer, and a
\* later response of confidence 0.6 has left it in place.
C16_Witness ==
  /\ lastOp.op = "analyzeForInsightsResolved"
  /\ C16_SingleAccepts(<<InsightJson(TRUE, 70)>>)
  /\ ParseInsightResponse(lastOp.arg[1]) = <<InsightJson(TRUE, 60)>>
  /\ insightHook.currentInsight # <<>>
  /\ insightHook.currentInsight[1].confidence = 70
  /\ Len(insightHook.insightsHistory) = 1

\* C17: checkDriftClientSide returns {isDrifting: false, matchRatio: 1} when
\* the transcript has fewer than 6 messages or there is no keyword; otherwise
\* matchRatio is the number of keywords that occur in the lower-cased text of
\* the last 4 messages over the number of keywords, lies between 0 and 1, is
\* the same for every transcript with these last 4 messages, and isDrifting
\* holds iff matchRatio < 0.15.
C17_Occurs(keyword, transcript) ==
  \E i \in 1..Len(transcript) :
    /\ i > Len(transcript) - 4
    /\ Includes(ToLowerCase(transcript[i].content), keyword)

C17_Reference(transcript, keywords) ==
  IF Len(transcript) < 6 \/ keywords = <<>>
  THEN [isDrifting |-> FALSE, matchRatio |-> <<1, 1>>]
  ELSE LET hits == Cardinality({k \in 1..Len(keywords) :
                                  C17_Occurs(keywords[k], transcript)})
       IN [isDrifting |-> 100 * hits < 15 * Len(keywords),
           matchRatio |-> <<hits, Len(keywords)>>]

C17_SameRecent(a, b) ==
  /\ Len(a) >= 4 /\ Len(b) >= 4
  /\ \A k \in 0..3 : a[Len(a) - k].content = b[Len(b) - k].content

C17_EqualsReference ==
  driftCheck # <<>> =>
    /\ driftCheck[1] = C17_Reference(driftMessages, goalKeywords[1])
    /\ driftCheck[1].matchRatio[1] >= 0
    /\ driftCheck[1].matchRatio[1] <= driftCheck[1].matchRatio[2]
    /\ \A other \in Transcripts :
         (Len(other) >= 6 /\ Len(driftMessages) >= 6
          /\ C17_SameRecent(other, driftMessages)) =>
           DriftCheckOf[other][goalString] = driftCheck[1]

\* A transcript of six messages was checked against seven keywords: only
\* one occurs in the last four messages, which is drifting, while the
\* messages before them are on the goal.
C17_Witness ==
  /\ driftCheck # <<>>
  /\ Len(driftMessages) = 6
  /\ Len(goalKeywords[1]) = 7
  /\ driftMessages[1].content = OnGoalContent
  /\ driftCheck[1] = [isDrifting |-> TRUE, matchRatio |-> <<1, 7>>]

\* C18: extractGoalKeywords returns no token twice, no stop-word and no
\* token of length 2 or less; for "Build a REST API for todo app" it returns
\* build, rest, api, todo, app.
C18_NoRepeats(keywords) ==
  \A i, j \in 1..Len(keywords) : i # j => keywords[i] # keywords[j]

C18_NoStopWordOrShortToken(keywords) ==
  \A i \in 1..Len(keywords) :
    keywords[i] \notin StopWords /\ Len(keywords[i]) > 2

C18_ExampleKeywords ==
  <<<<"b", "u", "i", "l", "d">>, <<"r", "e", "s", "t">>, <<"a", "p", "i">>,
    <<"t", "o", "d", "o">>, <<"a", "p", "p">>>>

\* What holds of the keywords: all but the absence of repeats.
C18_KeywordsFiltered ==
  goalKeywords # <<>> =>
    /\ C18_NoStopWordOrShortToken(goalKeywords[1])
    /\ goalString = ExampleGoal => goalKeywords[1] = C18_ExampleKeywords

\* The statement: the keywords are a set.
C18_SetSemantics ==
  goalKeywords # <<>> =>
    /\ C18_NoRepeats(goalKeywords[1])
    /\ C18_NoStopWordOrShortToken(goalKeywords[1])
    /\ goalString = ExampleGoal => goalKeywords[1] = C18_ExampleKeywords

\* C19: in the App's drift effect, whatever the driftSensitivity hint, a
\* transcript of fewer than 6 messages or a goal without content keywords
\* sets no drift alert and counts no tangent.
C19_NoCheck(transcript, text) ==
  Len(transcript) < MinMessages \/ GoalKeywordsOf[text] = <<>>

C19_NoCheckInputs ==
  {input \in AppTranscripts \X Goals : C19_NoCheck(input[1], input[2])}

\* A step that sets the alert or counts a tangent is not the effect run on
\* such a transcript and goal.
C19_NoAlertWithoutCheck ==
  [][(driftAlert' # driftAlert \/ metrics'.tangentCount # metrics.tangentCount)
     => \A input \in C19_NoCheckInputs : ~DriftEffect(input[1], input[2])]_vars

\* The effect has run on a transcript of five messages, and on no other,
\* for a profile whose hint is the high sensitivity: no alert, no tangent.
C19_Witness ==
  /\ analyzeCalls[5] > 0
  /\ \A id \in MessageIds \ {5} : analyzeCalls[id] = 0
  /\ "driftSensitivity" \in DOMAIN GetPersonalizationHints(traits)
  /\ GetPersonalizationHints(traits)["driftSensitivity"] = "high"
  /\ driftAlert = FALSE
  /\ tracks = 0
  /\ metrics.tangentCount = 0


\* C20: mergeProfileUpdate sets each thinking-style axis and each pattern
\* axis that the observed update holds to current*0.7 + observed*0.3, leaves
\* every other axis as it is, and so leaves every axis as it is when each
\* observed value is the current one.
C20_Observed(update, section) ==
  IF section \in DOMAIN update
  THEN {k \in DOMAIN update[section] : update[section][k].type = "number"}
  ELSE {}

C20_Blended(current, update, merged, section) ==
  \A k \in DOMAIN current[section] :
    merged[section][k] =
      IF k \in C20_Observed(update, section)
      THEN Blend(current[section][k], update[section][k].value)
      ELSE current[section][k]

\* What holds: the observed axes are blended and the others are kept.
C20_BlendsObservedAxes ==
  [][\A parsed \in ParsedUpdates(cognitiveProfile) :
       AnalyzeAndUpdate(parsed) =>
         /\ C20_Blended(cognitiveProfile, parsed, cognitiveProfile', "thinkingStyles")
         /\ C20_Blended(cognitiveProfile, parsed, cognitiveProfile', "patterns")]_vars

\* The statement: moreover, observing the current values changes no axis.
C20_BlendKeepsObservedAgain ==
  [][/\ \A parsed \in ParsedUpdates(cognitiveProfile) :
          AnalyzeAndUpdate(parsed) =>
            /\ C20_Blended(cognitiveProfile, parsed, cognitiveProfile',
                           "thinkingStyles")
            /\ C20_Blended(cognitiveProfile, parsed, cognitiveProfile', "patterns")
     /\ AnalyzeAndUpdate(ZeroDelta(cognitiveProfile)) =>
          cognitiveProfile' = cognitiveProfile]_vars


\* ------------------------------------------------------------------ C21
\* The first mental model's concepts, none when there is no model.
C21_Concepts(profile) ==
  IF profile.mentalModels = <<>> THEN <<>> ELSE profile.mentalModels[1].concepts

\* The importances the update observes of the label, whatever the spelling.
C21_ObservedOf(update, label) ==
  IF "emergingConcepts" \notin DOMAIN update THEN {}
  ELSE {update.emergingConcepts[i].importance :
          i \in {j \in 1..Len(update.emergingConcepts) :
                   ToLowerCase(update.emergingConcepts[j].label)
                     = ToLowerCase(label)}}

C21_Largest(importances) ==
  CHOOSE m \in importances : \A x \in importances : ~DoubleLess(m, x)

\* No two concepts of the first model have the same label ignoring case.
C21_DistinctLabels ==
  \A i, j \in 1..Len(C21_Concepts(cognitiveProfile)) :
    ToLowerCase(C21_Concepts(cognitiveProfile)[i].label)
        = ToLowerCase(C21_Concepts(cognitiveProfile)[j].label)
      => i = j

\* A merge pass keeps every concept of the first model in its place, with
\* the largest of its importance and the importances observed of its label.
C21_RaisedOnly(before, update, after) ==
  before # <<>> =>
    /\ Len(after) >= Len(before)
    /\ \A i \in 1..Len(before) :
         /\ after[i].id = before[i].id
         /\ after[i].label = before[i].label
         /\ ~DoubleLess(after[i].importance, before[i].importance)
         /\ after[i].importance =
              C21_Largest({before[i].importance}
                            \cup C21_ObservedOf(update, before[i].label))

\* Claim C21: after any sequence of merge passes from a model whose labels
\* are distinct ignoring case, no two concepts of the first mental model
\* have labels equal ignoring case, also when one update lists a label
\* twice, and no merge pass lowers a concept's importance: a repeat
\* observation sets it to the larger of the existing and the observed one.
C21_DistinctAndRaisedOnly ==
  /\ []C21_DistinctLabels
  /\ [][\A parsed \in ConceptUpdates :
          AnalyzeAndUpdate(parsed) =>
            C21_RaisedOnly(C21_Concepts(cognitiveProfile), parsed,
                           C21_Concepts(cognitiveProfile'))]_vars

\* Two passes that each observed concepts have left one concept, so that
\* the second pass observed the first one's label again: the concept has the
\* spelling of its first mention and the larger importance.
C21_Witness ==
  /\ Len(cognitiveProfile.mentalModels) = 1
  /\ cognitiveProfile.mentalModels[1].confidence
       = ConfidenceAfter[ConfidenceAfter[InitialConfidence]]
  /\ Len(cognitiveProfile.mentalModels[1].concepts) = 1
  /\ cognitiveProfile.mentalModels[1].concepts[1].label = TextUpper
  /\ cognitiveProfile.mentalModels[1].concepts[1].importance = Observed


\* ------------------------------------------------------------------ C22
C22_Connections(profile) ==
  IF profile.mentalModels = <<>> THEN <<>>
  ELSE profile.mentalModels[1].connections

C22_Pairs(connections) ==
  {<<connections[i].fromId, connections[i].toId>> : i \in 1..Len(connections)}

C22_Observed(update) ==
  IF "conceptConnections" \in DOMAIN update THEN update.conceptConnections
  ELSE <<>>

\* The identifiers of the concepts with the label, whatever the spelling.
C22_IdsOf(concepts, label) ==
  {concepts[i].id :
     i \in {j \in 1..Len(concepts) :
              ToLowerCase(concepts[j].label) = ToLowerCase(label)}}

\* The pairs of concepts the update observes a connection of, both ends
\* being concepts of the model after the pass.
C22_Matched(concepts, update) ==
  UNION {C22_IdsOf(concepts, C22_Observed(update)[i].from)
           \X C22_IdsOf(concepts, C22_Observed(update)[i].to) :
         i \in 1..Len(C22_Observed(update))}

\* The pass keeps the connections it found and adds one for each observed
\* pair of concepts that had none, and nothing else.
C22_AddedExactly(before, update, concepts, after) ==
  /\ Len(after) >= Len(before)
  /\ \A i \in 1..Len(before) : after[i] = before[i]
  /\ C22_Pairs(after) = C22_Pairs(before) \cup C22_Matched(concepts, update)
  /\ Cardinality(C22_Pairs(after)) - Cardinality(C22_Pairs(before))
       = Len(after) - Len(before)

\* Every connection of the first model joins two concepts of that model.
\* This part of the claim holds of the code.
C22_ConnectionsJoinConcepts ==
  \A i \in 1..Len(C22_Connections(cognitiveProfile)) :
    \E from, to \in 1..Len(C21_Concepts(cognitiveProfile)) :
      /\ C21_Concepts(cognitiveProfile)[from].id
           = C22_Connections(cognitiveProfile)[i].fromId
      /\ C21_Concepts(cognitiveProfile)[to].id
           = C22_Connections(cognitiveProfile)[i].toId

\* Claim C22: a merge pass adds an observed connection exactly when both of
\* its endpoint labels match concepts of the model after that pass's concept
\* merge and no connection of the same (fromId, toId) pair exists, whether
\* or not the update also carries emerging concepts; otherwise the list of
\* connections is unchanged, and every stored connection references two
\* existing concepts.
C22_AddsWhenEndpointsMatch ==
  /\ []C22_ConnectionsJoinConcepts
  /\ [][\A parsed \in ConceptUpdates :
          AnalyzeAndUpdate(parsed) =>
            C22_AddedExactly(C22_Connections(cognitiveProfile), parsed,
                             C21_Concepts(cognitiveProfile'),
                             C22_Connections(cognitiveProfile'))]_vars

\* The same with the update required to carry emerging concepts: so the
\* code merges connections.
C22_AddsWhenConceptsEmerge ==
  [][\A parsed \in {update \in ConceptUpdates : HasEmergingConcepts(update)} :
       AnalyzeAndUpdate(parsed) =>
         C22_AddedExactly(C22_Connections(cognitiveProfile), parsed,
                          C21_Concepts(cognitiveProfile'),
                          C22_Connections(cognitiveProfile'))]_vars


\* ------------------------------------------------------------------ C23
C23_Trends == {"rising", "stable", "falling"}

\* level and depth are at most 1; neither is below 0, the doubles of this
\* part being the ones that are not negative.
C23_InRange ==
  /\ ~DoubleLess(One, conversation.momentum.level)
  /\ ~DoubleLess(One, conversation.momentum.depth)
  /\ conversation.momentum.trend \in C23_Trends

\* Claim C23: updateMomentum leaves the momentum unchanged when given fewer
\* than 3 messages, and any sequence of calls on transcripts whose
\* timestamps never decrease keeps level and depth within [0, 1] and trend
\* within {rising, stable, falling}.
C23_MomentumInRange ==
  /\ []C23_InRange
  /\ [][\A transcript \in {t \in MomentumTranscripts : Len(t) < 3} :
          UpdateMomentum(transcript) =>
            conversation'.momentum = conversation.momentum]_vars

\* A call on a transcript of twenty messages or more has raised the level
\* above one half: the depth is 1 and the trend is rising.
C23_Witness ==
  /\ conversation.momentum.depth = One
  /\ conversation.momentum.trend = "rising"
  /\ DoubleLess(Half, conversation.momentum.level)
  /\ conversation.momentumUpdates > 1


\* ------------------------------------------------------------------ C24
\* The observation of the given id has been responded to.
C24_Dismissed(observationId) ==
  \E i \in 1..Len(observations) :
    /\ observations[i].id = observationId
    /\ observations[i].dismissed

\* Claim C24: for each observation at most one response takes effect: once
\* an observation is dismissed by a confirm, deny or dismiss response, a
\* further respondToObservation with its id, whatever the response, leaves
\* the profile unchanged, the trait's confirmedByUser in particular.
C24_OneResponseTakesEffect ==
  [][vars' # vars =>
       \A observationId \in 0..(nextId - 1), response \in Responses :
         (C24_Dismissed(observationId)
            /\ RespondToObservation(observationId, response))
           => /\ traits' = traits
              /\ observations' = observations
              /\ metrics' = metrics]_vars


\* ------------------------------------------------------------------ C27
\* The observations a step appends.
C27_Created == (Len(observations) + 1)..Len(observations')

\* An observation of the trait id was confirmed or denied: under the
\* specification of the answering user these are the dismissed ones.
C27_Answered(traitId) ==
  \E j \in 1..Len(observations) :
    /\ observations[j].traitId = traitId
    /\ observations[j].dismissed

\* Claim C27: once the user has confirmed or denied an observation, no later
\* generateObservations pass creates another observation with the same
\* traitId, be it one of the three trait-based observations or the
\* counter-based 'actionPileup'.
C27_NeverAskedAgain ==
  [][vars' # vars =>
       \A i \in C27_Created : ~C27_Answered(observations'[i].traitId)]_vars

\* The same of the observations that have a trait: so the code behaves.
C27_TraitsNeverAskedAgain ==
  [][vars' # vars =>
       \A i \in C27_Created :
         observations'[i].traitId # "actionPileup"
           => ~C27_Answered(observations'[i].traitId)]_vars


\* ------------------------------------------------------------------ C28
\* The profile the call was given, as the call leaves it, is the profile as
\* it was before the call.
C28_Unmodified(before) == mergeArgument' = <<before>>

\* Merging the same update into the profile the call was given, once more,
\* returns what the call returned.
C28_SameAgain(parsed) ==
  MergeProfileUpdate(mergeArgument'[1], parsed, nextId) = cognitiveProfile'

\* Claim C28: mergeProfileUpdate does not modify its `current` argument: its
\* thinkingStyles, patterns and mental models are after the call what they
\* were before it, so that the same update applied to the same prior profile
\* a second time returns the same axis values and the same concept and
\* connection lists.
C28_MergeLeavesCurrent ==
  [][\A parsed \in ParsedUpdates(cognitiveProfile) :
       AnalyzeAndUpdate(parsed)
         => /\ C28_Unmodified(cognitiveProfile)
            /\ C28_SameAgain(parsed)]_vars

\* The same of the models, under the updates that bring concepts.
C28_MergeLeavesModels ==
  [][\A parsed \in ConceptUpdates :
       AnalyzeAndUpdate(parsed)
         => mergeArgument'[1].mentalModels = cognitiveProfile.mentalModels]_vars

\* What the call does leave alone: the preferences of `current`.
C28_MergeLeavesPreferences ==
  [][\A parsed \in ParsedUpdates(cognitiveProfile) :
       AnalyzeAndUpdate(parsed)
         => mergeArgument'[1].preferences = cognitiveProfile.preferences]_vars


\* ------------------------------------------------------------------ C29
\* The driftSensitivity hint of the profile, "absent" when there is none.
C29_Sensitivity ==
  IF "driftSensitivity" \in DOMAIN GetPersonalizationHints(traits)
  THEN GetPersonalizationHints(traits)["driftSensitivity"]
  ELSE "absent"

\* The decision the effect takes on the check's result under a sensitivity.
C29_Alerts(sensitivity, check) ==
  ShouldAlert(IF sensitivity = "absent" THEN <<>>
              ELSE [k \in {"driftSensitivity"} |-> sensitivity],
              check.isDrifting, check.matchRatio)

\* Claim C29: in the App's drift effect the decision under the low
\* sensitivity is the decision under no hint and under the medium one, for
\* every transcript and goal, and every alert raised under the low or the
\* medium sensitivity is raised under the high one too. C29_Decided says it
\* of one run of the effect on the App's transcript and goal, from the result
\* of its drift check: a run under
\* low, medium or no hint alerts exactly when the others of the three would,
\* and a run under high alerts whenever one of them would.
C29_Decided(sensitivity, alerted, check) ==
  /\ C29_Alerts("low", check) = C29_Alerts("absent", check)
  /\ C29_Alerts("low", check) = C29_Alerts("medium", check)
  /\ sensitivity # "high" => (alerted <=> C29_Alerts("absent", check))
  /\ sensitivity = "high"
       => (C29_Alerts("low", check) \/ C29_Alerts("medium", check) => alerted)

C29_LowIsMediumHighAlertsMore ==
  [][(/\ AnalysisEffect
      /\ conversation.messages[Len(conversation.messages)].role = "assistant")
       => C29_Decided(C29_Sensitivity,
                      metrics'.tangentCount = metrics.tangentCount + 1,
                      DriftCheckOf[conversation.messages][conversation.goal])]_vars

\* The effect has raised the alert and counted the tangent for a profile
\* whose hint is the low sensitivity.
C29_Witness ==
  /\ C29_Sensitivity = "low"
  /\ driftAlert
  /\ tracks = 1
  /\ conversation.analysed # <<>>

\* ------------------------------------------------------------------ C26
\* Claim C26: the App's per-message analysis runs its side effects at most
\* once per appended assistant message: while the transcript stays as it is,
\* trackMetric('tangentCount') is called at most once and the momentum is
\* smoothed at most once, also when the profile's trait list changes without
\* a new message.
C26_SideEffectsOncePerMessage ==
  /\ tracks <= 1
  /\ conversation.momentumUpdates <= 1

\* What does happen once only: the action items of the message are
\* extracted by the first run and by no later one.
C26_ExtractedOnce ==
  [][(AnalysisEffect /\ conversation.analysed # <<>>)
       => clientHook' = clientHook]_vars


\* ------------------------------------------------------------------ C30
\* The sends of the transcript that no assistant message of it answers.
C30_Unanswered(transcript) ==
  {transcript[i].id : i \in {k \in 1..Len(transcript) :
                               transcript[k].role = "user"}}
    \ {transcript[i].inReplyTo[1] : i \in {k \in 1..Len(transcript) :
                                             transcript[k].role = "assistant"}}

\* Claim C30: when the completion-service call of a send fails, the failure
\* is a recoverable error: error becomes the failure's message (some text
\* when the failure has none), isLoading is false, the transcript is left as
\* it is, so that the user message of the send stays and no assistant message
\* is appended for it, and a later send is accepted: it appends its user
\* message and clears the error.
C30_FailureIsRecoverable ==
  [][/\ \A userId \in conversation.awaiting, failure \in Failures :
          CompletionRejects(userId, failure)
            => /\ conversation'.error # <<>>
               /\ failure.isError => conversation'.error = <<failure.message>>
               /\ conversation'.isLoading = FALSE
               /\ conversation'.messages = conversation.messages
     /\ (Send /\ settings.apiKey /\ conversation.error # <<>>)
          => /\ conversation'.error = <<>>
             /\ conversation'.messages =
                  Append(conversation.messages, UserMessage(nextId))
             /\ nextId \in conversation'.awaiting]_vars

\* No session was ever made, selected or deleted; the first send has failed,
\* its user message is in the transcript, unanswered, and a second send was
\* accepted: the error is cleared.
C30_Witness ==
  /\ lastOp.op = "send"
  /\ conversation.sessions = SavedSessions
  /\ conversation.currentSession = <<>>
  /\ Len(conversation.messages) = 2
  /\ C30_Unanswered(conversation.messages)
       = {conversation.messages[1].id, conversation.messages[2].id}
  /\ conversation.awaiting = {conversation.messages[2].id}
  /\ conversation.error = <<>>
  /\ conversation.isLoading

\* ------------------------------------------------------------------ C25
\* The transcripts: the current one and the one saved in each session.
C25_Transcripts ==
  {conversation.messages}
    \cup {conversation.sessions[i].messages : i \in 1..Len(conversation.sessions)}
    \cup {conversation.currentSession[i].messages :
            i \in 1..Len(conversation.currentSession)}

\* Claim C25: an assistant reply is appended only to the transcript of the
\* session whose send produced it: in the current transcript and in every
\* saved one, each assistant message follows the user message of its send,
\* also when a session was selected, created or deleted while the send
\* awaited the completion service.
C25_RepliesFollowTheirSend ==
  \A transcript \in C25_Transcripts :
    \A i \in 1..Len(transcript) :
      transcript[i].role = "assistant"
        => \E j \in 1..(i - 1) : transcript[j].id = transcript[i].inReplyTo[1]

\* What holds of a send that no session change crosses: the reply is
\* appended to the transcript that holds its user message.
C25_ReplyJoinsItsSendWhenPresent ==
  [][\A userId \in conversation.awaiting :
       (/\ CompletionResolves(userId)
        /\ \E j \in 1..Len(conversation.messages) :
             conversation.messages[j].id = userId)
         => \E j \in 1..Len(conversation.messages) :
              /\ conversation'.messages[j].id = userId
              /\ conversation'.messages[Len(conversation'.messages)].inReplyTo
                   = <<userId>>]_vars

====
